---- MODULE Spec2Model ----
(***************************************************************************)
(* Model of the package manager library (src/src/lib/package_manager_lib.cpp): *)
(* the dependency resolver and the asynchronous installation engine with   *)
(* its FIFO request queue.                                                 *)
(*                                                                         *)
(* The engine is single-threaded and event driven.  Control is modelled by *)
(* `stack`, the C++ call stack reduced to the frames at which foreign code *)
(* runs or events are dispatched:                                          *)
(*   - an empty stack is the main event loop;                              *)
(*   - a "resolve" frame is the nested QEventLoop of                       *)
(*     fetchPackageListFromOnline(), entered from resolveDependencies();   *)
(*   - an "emit..." frame is a signal emission in progress: the connected  *)
(*     slots run synchronously and may call installPackagesAsync().        *)
(* Everything between two such points is deterministic code and is taken   *)
(* in one step.                                                            *)
(***************************************************************************)
EXTENDS Integers, Sequences, FiniteSets, TLC

VARIABLES
    m_isInstalling,   \* bool m_isInstalling
    m_requestQueue,   \* QQueue<QStringList> m_requestQueue (entries tagged with a request id)
    m_asyncState,     \* AsyncInstallState m_asyncState
    net,              \* replies the QNetworkAccessManager still owes, in order of issue
    stack,            \* call stack (see above), top is the last element
    nextId,           \* number of installPackagesAsync calls made so far
    activated,        \* ids of the requests in the order they became active
    hist,             \* per request: a summary of what happened to it
    cur,              \* what was observed of the active batch
    prev,             \* what was observed of the batch that ended last
    rd                \* state of the resolver specification (SpecResolve)

vars == <<m_isInstalling, m_requestQueue, m_asyncState, net, stack,
          nextId, activated, hist, cur, prev, rd>>

----------------------------------------------------------------------------
(* Bounds *)

MaxRequests == 3
MaxLiveRequests == 2
MaxDeps == 2
MaxRoots == 2
MaxCatalogLen == 3
MaxListLen == 2
MaxArgs == 2

----------------------------------------------------------------------------
(* Catalog records and the dependency resolver *)

\* One catalog entry: the fields of list.json the engine reads.
Pkg(n, d, f) == [name |-> n, dependencies |-> d, package |-> f]

\* QJsonObject(): what findPackageByName returns when nothing matches.
EmptyObject == [name |-> "", dependencies |-> <<>>, package |-> ""]

\* The values a "name" member can have that are not JSON strings: a number,
\* and no member of that name at all.
JsonNumber == "<number>"
JsonUndefined == "<undefined>"
NotAString == {JsonNumber, JsonUndefined}

\* QJsonValue::toString(): the string, or a null QString (which equals "")
\* when the value is not a string.
toString(value) == IF value \in NotAString THEN "" ELSE value

RECURSIVE findFrom(_, _, _)
findFrom(packages, packageName, i) ==
    IF i > Len(packages) THEN EmptyObject
    ELSE IF toString(packages[i].name) = packageName THEN packages[i]
    ELSE findFrom(packages, packageName, i + 1)

findPackageByName(packages, packageName) == findFrom(packages, packageName, 1)

Contains(seq, x) == \E i \in DOMAIN seq : seq[i] = x

\* for (dep : list) if (!result.contains(dep)) result.append(dep);
RECURSIVE AppendNew(_, _)
AppendNew(result, list) ==
    IF list = <<>> THEN result
    ELSE AppendNew(IF Contains(result, Head(list)) THEN result
                   ELSE Append(result, Head(list)), Tail(list))

\* Result of one call: the returned list and the (by-reference) processed set.
RECURSIVE resolveDependenciesRecursive(_, _, _)
RECURSIVE resolveLoop(_, _, _, _)

\* resolveLoop giving up at the first dependency that is not in the catalog.
resolveLoop_StopAtMissing(dependencies, allPackages, processed, result) ==
    IF dependencies = <<>> THEN [result |-> result, processed |-> processed]
    ELSE LET depName == Head(dependencies) IN
         IF depName = ""
         THEN resolveLoop(Tail(dependencies), allPackages, processed, result)
         ELSE IF findPackageByName(allPackages, depName) = EmptyObject
         THEN [result |-> result, processed |-> processed \cup {depName}]
         ELSE LET r == resolveDependenciesRecursive(depName, allPackages, processed) IN
              resolveLoop(Tail(dependencies), allPackages, r.processed,
                          AppendNew(result, r.result))

\* The loop over the dependencies of one package.
resolveLoop(dependencies, allPackages, processed, result) ==
    IF dependencies = <<>> THEN [result |-> result, processed |-> processed]
    ELSE LET depName == Head(dependencies) IN
         IF depName = ""
         THEN resolveLoop(Tail(dependencies), allPackages, processed, result)
         ELSE LET r == resolveDependenciesRecursive(depName, allPackages, processed) IN
              resolveLoop(Tail(dependencies), allPackages, r.processed,
                          AppendNew(result, r.result))

\* resolveDependenciesRecursive appending the package before its
\* dependencies instead of after them.
resolveDependenciesRecursive_PreOrder(packageName, allPackages, processed) ==
    IF packageName \in processed
    THEN [result |-> <<>>, processed |-> processed]
    ELSE LET marked == processed \cup {packageName}
             packageObj == findPackageByName(allPackages, packageName)
         IN  IF packageObj = EmptyObject
             THEN [result |-> <<>>, processed |-> marked]
             ELSE LET r == resolveLoop(packageObj.dependencies, allPackages, marked,
                                       <<packageName>>)
                  IN  [result |-> r.result, processed |-> r.processed]

resolveDependenciesRecursive(packageName, allPackages, processed) ==
    IF packageName \in processed
    THEN [result |-> <<>>, processed |-> processed]
    ELSE LET marked == processed \cup {packageName}
             packageObj == findPackageByName(allPackages, packageName)
         IN  IF packageObj = EmptyObject
             THEN [result |-> <<>>, processed |-> marked]
             ELSE LET r == resolveLoop(packageObj.dependencies, allPackages, marked, <<>>)
                  IN  [result |-> Append(r.result, packageName),
                       processed |-> r.processed]

RECURSIVE resolveRoots(_, _, _, _)

\* The loop of resolveDependencies resolving the first requested name only.
resolveRoots_FirstOnly(packageNames, allPackages, processed, result) ==
    IF packageNames = <<>> THEN result
    ELSE AppendNew(result,
                   resolveDependenciesRecursive(Head(packageNames), allPackages,
                                                processed).result)

resolveRoots(packageNames, allPackages, processed, result) ==
    IF packageNames = <<>> THEN result
    ELSE LET r == resolveDependenciesRecursive(Head(packageNames), allPackages, processed)
         IN  resolveRoots(Tail(packageNames), allPackages, r.processed,
                          AppendNew(result, r.result))

\* resolveDependencies removing repeated names also when the catalog is empty.
resolveDependencies_DedupFallback(packageNames, allPackages) ==
    IF allPackages = <<>> THEN AppendNew(<<>>, packageNames)
    ELSE resolveRoots(packageNames, allPackages, {}, <<>>)

\* allPackages is what fetchPackageListFromOnline returned: <<>> on any failure.
resolveDependencies(packageNames, allPackages) ==
    IF allPackages = <<>> THEN packageNames
    ELSE resolveRoots(packageNames, allPackages, {}, <<>>)


----------------------------------------------------------------------------
(* The asynchronous engine: helpers *)

\* The program state as one record, so that the C++ functions become
\* operators from state to state.
State == [m_isInstalling |-> m_isInstalling, m_requestQueue |-> m_requestQueue,
          m_asyncState |-> m_asyncState, net |-> net, stack |-> stack,
          activated |-> activated, hist |-> hist, cur |-> cur, prev |-> prev]

\* The engine's variables take the values of record s; t names s so that
\* the handler that produced it is evaluated once.
Becomes(s) ==
    \E t \in {s} :
        /\ m_isInstalling' = t.m_isInstalling
        /\ m_requestQueue' = t.m_requestQueue
        /\ m_asyncState' = t.m_asyncState
        /\ net' = t.net
        /\ stack' = t.stack
        /\ activated' = t.activated
        /\ hist' = t.hist
        /\ cur' = t.cur
        /\ prev' = t.prev

Notification(packageName, success, error) ==
    [packageName |-> packageName, success |-> success, error |-> error]

NoNotification == Notification("", FALSE, "")

\* A stack frame; note is the notification being delivered by an emit frame.
Frame(pc, id, names, note) == [pc |-> pc, id |-> id, names |-> names, note |-> note]

Top(st) == st[Len(st)]
Pop(st) == SubSeq(st, 1, Len(st) - 1)
RemoveAt(seq, i) == SubSeq(seq, 1, i - 1) \o SubSeq(seq, i + 1, Len(seq))

\* An event loop is running and dispatches events: the main loop, the
\* nested loop of fetchPackageListFromOnline under installPackagesAsync
\* ("resolve"), or the nested loop of fetchPackageListFromOnline or
\* downloadFile under a synchronous installPackage(s) ("syncLoop").
InEventLoop == IF stack = <<>> THEN TRUE ELSE Top(stack).pc \in {"resolve", "syncLoop"}

\* A slot connected to one of the library's signals is running.
InSlot ==
    IF stack = <<>> THEN FALSE
    ELSE Top(stack).pc \in {"emitEmpty", "emitPlugin", "emitPkg", "emitFinish",
                            "syncEmit"}

----------------------------------------------------------------------------
(* Observation of the engine (no effect on the program state) *)

NoHist == [blocker |-> 0, queued |-> FALSE, ended |-> "no", notified |-> FALSE,
           submit |-> "no"]

NoBatch == [id |-> 0, names |-> <<>>, resolved |-> <<>>, attempts |-> <<>>,
            installs |-> <<>>, emits |-> <<>>, ended |-> "no"]

ObserveActivation(s, id, packageNames) ==
    [s EXCEPT !.activated = Append(@, id),
              !.cur = [NoBatch EXCEPT !.id = id, !.names = packageNames]]

ObserveResolved(s, packagesToInstall) ==
    [s EXCEPT !.cur.resolved = packagesToInstall]

ObserveAttempt(s, packageName) ==
    [s EXCEPT !.cur.attempts = Append(@, packageName)]

\* installPluginFile returned path for the package being processed.
ObserveInstall(s, path) ==
    [s EXCEPT !.cur.installs = Append(@, path)]

ObserveQueued(s, id) ==
    IF id \in DOMAIN s.hist THEN [s EXCEPT !.hist[id].queued = TRUE] ELSE s

\* What the call installPackagesAsync(packageNames) numbered id did when it
\* found s with m_isInstalling set and left r: "appended" if the only change
\* of the program state is one new entry with packageNames at the tail of
\* the request queue, "empty" if not and packageNames is empty, "other"
\* if not and it is not empty; "no" if m_isInstalling was not set.
ObserveSubmit(s, r, id, packageNames) ==
    LET kind ==
            IF ~s.m_isInstalling THEN "no"
            ELSE IF /\ r.m_requestQueue =
                          Append(s.m_requestQueue, [id |-> id, names |-> packageNames])
                    /\ r.m_asyncState = s.m_asyncState
                    /\ r.m_isInstalling
                    /\ r.net = s.net
                    /\ r.stack = s.stack
            THEN "appended"
            ELSE IF packageNames = <<>> THEN "empty"
            ELSE "other"
    IN  IF id \in DOMAIN r.hist THEN [r EXCEPT !.hist[id].submit = kind] ELSE r

ObserveNotified(s, id) ==
    IF id \in DOMAIN s.hist THEN [s EXCEPT !.hist[id].notified = TRUE] ELSE s

ObservePackageEvent(s, note) ==
    ObserveNotified([s EXCEPT !.cur.emits = Append(@, note)], s.cur.id)

ObserveEnd(s, how, notes) ==
    LET id == s.cur.id
        s1 == [s EXCEPT !.prev = [s.cur EXCEPT !.ended = how, !.emits = @ \o notes],
                        !.cur = NoBatch]
        s2 == IF id \in DOMAIN s.hist THEN [s1 EXCEPT !.hist[id].ended = how] ELSE s1
    IN  IF notes # <<>> THEN ObserveNotified(s2, id) ELSE s2

----------------------------------------------------------------------------
(* The asynchronous engine: the functions of PackageManagerLib *)

\* emit installationFinished(packageName, success, error): the connected
\* slots run before the emitting function continues at `pc`.
EmitInstallationFinished(s, id, note, pc) ==
    [s EXCEPT !.stack = Append(@, Frame(pc, id, <<>>, note))]

\* installPackagesAsync without the m_isInstalling guard: a request is
\* started at once whatever the engine is doing.
installPackagesAsync_NoGuard(s, id, packageNames) ==
    IF packageNames = <<>>
    THEN EmitInstallationFinished(ObserveNotified(s, id), id,
             Notification("", FALSE, "No packages to install"), "emitEmpty")
    ELSE [ObserveActivation(s, id, packageNames)
             EXCEPT !.m_isInstalling = TRUE,
                    !.net = Append(@, "blocking"),
                    !.stack = Append(@, Frame("resolve", id, packageNames, NoNotification))]

\* installPackagesAsync leaving out a request whose name list is already
\* waiting in the queue.
installPackagesAsync_Dedup(s, id, packageNames) ==
    IF packageNames = <<>>
    THEN EmitInstallationFinished(ObserveNotified(s, id), id,
             Notification("", FALSE, "No packages to install"), "emitEmpty")
    ELSE IF s.m_isInstalling
    THEN IF \E i \in DOMAIN s.m_requestQueue : s.m_requestQueue[i].names = packageNames
         THEN s
         ELSE [ObserveQueued(s, id)
                  EXCEPT !.m_requestQueue = Append(@, [id |-> id, names |-> packageNames])]
    ELSE [ObserveActivation(s, id, packageNames)
             EXCEPT !.m_isInstalling = TRUE,
                    !.net = Append(@, "blocking"),
                    !.stack = Append(@, Frame("resolve", id, packageNames, NoNotification))]

\* installPackagesAsync treating an empty list as the end of the active
\* batch: m_isInstalling is cleared before the notification.
installPackagesAsync_EmptyEnds(s, id, packageNames) ==
    IF packageNames = <<>>
    THEN EmitInstallationFinished([ObserveNotified(s, id) EXCEPT !.m_isInstalling = FALSE],
             id, Notification("", FALSE, "No packages to install"), "emitEmpty")
    ELSE IF s.m_isInstalling
    THEN [ObserveQueued(s, id)
             EXCEPT !.m_requestQueue = Append(@, [id |-> id, names |-> packageNames])]
    ELSE [ObserveActivation(s, id, packageNames)
             EXCEPT !.m_isInstalling = TRUE,
                    !.net = Append(@, "blocking"),
                    !.stack = Append(@, Frame("resolve", id, packageNames, NoNotification))]

installPackagesAsync(s, id, packageNames) ==
    IF packageNames = <<>>
    THEN EmitInstallationFinished(ObserveNotified(s, id), id,
             Notification("", FALSE, "No packages to install"), "emitEmpty")
    ELSE IF s.m_isInstalling
    THEN [ObserveQueued(s, id)
             EXCEPT !.m_requestQueue = Append(@, [id |-> id, names |-> packageNames])]
    ELSE \* m_isInstalling = true; resolveDependencies() blocks in a nested event loop
         [ObserveActivation(s, id, packageNames)
             EXCEPT !.m_isInstalling = TRUE,
                    !.net = Append(@, "blocking"),
                    !.stack = Append(@, Frame("resolve", id, packageNames, NoNotification))]

processNextRequestInQueue(s) ==
    IF s.m_requestQueue = <<>> THEN s
    ELSE LET nextPackages == Head(s.m_requestQueue) IN
         installPackagesAsync([s EXCEPT !.m_requestQueue = Tail(@)],
                              nextPackages.id, nextPackages.names)

\* finishAsyncInstallation that leaves the file lists of the aborted package
\* in m_asyncState.
finishAsyncInstallation_KeepFiles(s, success, error) ==
    LET note == Notification(s.m_asyncState.packageName, success, error)
        s1 == [s EXCEPT !.m_isInstalling = FALSE,
                        !.m_asyncState.packageName = "",
                        !.m_asyncState.packageQueue = <<>>,
                        !.m_asyncState.currentPackageIndex = 0]
    IN  EmitInstallationFinished(ObserveEnd(s1, "aborted", <<note>>),
                                 s.cur.id, note, "emitFinish")

\* Up to the emit; the rest of the function is AfterFinishEmit.
finishAsyncInstallation(s, success, error) ==
    LET note == Notification(s.m_asyncState.packageName, success, error)
        s1 == [s EXCEPT !.m_isInstalling = FALSE,
                        !.m_asyncState.packageName = "",
                        !.m_asyncState.filesToDownload = <<>>,
                        !.m_asyncState.downloadedFiles = <<>>,
                        !.m_asyncState.packageQueue = <<>>,
                        !.m_asyncState.currentPackageIndex = 0]
    IN  EmitInstallationFinished(ObserveEnd(s1, "aborted", <<note>>),
                                 s.cur.id, note, "emitFinish")

\* m_networkManager is set in the constructor and never reset, so the
\* "Network manager not initialized" branch cannot be taken.
startAsyncPackageListFetch(s) ==
    [s EXCEPT !.net = Append(@, "list")]

\* startNextPackageInQueue with an off-by-one end test: the batch is taken
\* to be complete one package early.
startNextPackageInQueue_OffByOne(s) ==
    IF s.m_asyncState.currentPackageIndex + 1 >= Len(s.m_asyncState.packageQueue)
    THEN processNextRequestInQueue(
            [ObserveEnd(s, "done", <<>>)
                EXCEPT !.m_isInstalling = FALSE,
                       !.m_asyncState.packageName = "",
                       !.m_asyncState.packageQueue = <<>>,
                       !.m_asyncState.currentPackageIndex = 0])
    ELSE LET packageName ==
                 s.m_asyncState.packageQueue[s.m_asyncState.currentPackageIndex + 1]
         IN  startAsyncPackageListFetch(
                [ObserveAttempt(s, packageName)
                    EXCEPT !.m_asyncState.packageName = packageName])

\* startNextPackageInQueue that ends a completed batch without looking at
\* the request queue.
startNextPackageInQueue_NoDrain(s) ==
    IF s.m_asyncState.currentPackageIndex >= Len(s.m_asyncState.packageQueue)
    THEN [ObserveEnd(s, "done", <<>>)
             EXCEPT !.m_isInstalling = FALSE,
                    !.m_asyncState.packageName = "",
                    !.m_asyncState.packageQueue = <<>>,
                    !.m_asyncState.currentPackageIndex = 0]
    ELSE LET packageName ==
                 s.m_asyncState.packageQueue[s.m_asyncState.currentPackageIndex + 1]
         IN  startAsyncPackageListFetch(
                [ObserveAttempt(s, packageName)
                    EXCEPT !.m_asyncState.packageName = packageName])

startNextPackageInQueue(s) ==
    IF s.m_asyncState.currentPackageIndex >= Len(s.m_asyncState.packageQueue)
    THEN processNextRequestInQueue(
            [ObserveEnd(s, "done", <<>>)
                EXCEPT !.m_isInstalling = FALSE,
                       !.m_asyncState.packageName = "",
                       !.m_asyncState.packageQueue = <<>>,
                       !.m_asyncState.currentPackageIndex = 0])
    ELSE LET packageName ==
                 s.m_asyncState.packageQueue[s.m_asyncState.currentPackageIndex + 1]
         IN  startAsyncPackageListFetch(
                [ObserveAttempt(s, packageName)
                    EXCEPT !.m_asyncState.packageName = packageName])

\* AfterResolve starting the catalog fetch of every package of the batch
\* at once instead of one after the other.
AfterResolve_Parallel(s, packageNames, catalog, tempDir) ==
    LET packagesToInstall == resolveDependencies(packageNames, catalog)
        s1 == [ObserveResolved(s, packagesToInstall)
                  EXCEPT !.m_asyncState.packageQueue = packagesToInstall,
                         !.m_asyncState.currentPackageIndex = 0,
                         !.m_asyncState.filesToDownload = <<>>,
                         !.m_asyncState.downloadedFiles = <<>>,
                         !.m_asyncState.currentDownloadIndex = 0,
                         !.m_asyncState.tempDir = tempDir]
        s2 == startNextPackageInQueue(s1)
    IN  IF tempDir = ""
        THEN finishAsyncInstallation(s1, FALSE, "Failed to get temp directory")
        ELSE [s2 EXCEPT !.net = @ \o [i \in 1..(Len(packagesToInstall) - 1) |-> "list"]]

\* installPackagesAsync after resolveDependencies() has returned.
\* catalog is the result of the blocking fetch, tempDir that of
\* QStandardPaths::writableLocation(TempLocation).
AfterResolve(s, packageNames, catalog, tempDir) ==
    LET packagesToInstall == resolveDependencies(packageNames, catalog)
        s1 == [ObserveResolved(s, packagesToInstall)
                  EXCEPT !.m_asyncState.packageQueue = packagesToInstall,
                         !.m_asyncState.currentPackageIndex = 0,
                         !.m_asyncState.filesToDownload = <<>>,
                         !.m_asyncState.downloadedFiles = <<>>,
                         !.m_asyncState.currentDownloadIndex = 0,
                         !.m_asyncState.tempDir = tempDir]
    IN  IF tempDir = ""
        THEN finishAsyncInstallation(s1, FALSE, "Failed to get temp directory")
        ELSE startNextPackageInQueue(s1)

\* CompleteInstall treating a failed install like the other failures: the
\* batch is aborted through finishAsyncInstallation.
CompleteInstall_AbortOnFailure(s, allInstalled) ==
    IF allInstalled
    THEN LET note == Notification(s.m_asyncState.packageName, TRUE, "")
         IN  EmitInstallationFinished(ObservePackageEvent(s, note), s.cur.id, note, "emitPkg")
    ELSE finishAsyncInstallation(s, FALSE, "Some files failed to install")

\* CompleteInstall reporting success whatever installPluginFile returned.
CompleteInstall_AlwaysSuccess(s, allInstalled) ==
    LET note == Notification(s.m_asyncState.packageName, TRUE, "")
    IN  EmitInstallationFinished(ObservePackageEvent(s, note), s.cur.id, note, "emitPkg")

\* The second half of the install branch of startNextFileDownload: remove
\* the temp files, emit the per-package notification.
CompleteInstall(s, allInstalled) ==
    LET note == Notification(s.m_asyncState.packageName, allInstalled,
                             IF allInstalled THEN "" ELSE "Some files failed to install")
    IN  EmitInstallationFinished(ObservePackageEvent(s, note), s.cur.id, note, "emitPkg")

\* install is the outcome of installPluginFile for a downloaded file:
\* "failed" (empty path returned), "installed" (path returned, main file not
\* found, no signal) or "notified" (path returned, pluginFileInstalled emitted).
startNextFileDownload(s, install) ==
    IF s.m_asyncState.currentDownloadIndex >= Len(s.m_asyncState.filesToDownload)
    THEN IF s.m_asyncState.downloadedFiles = <<>>
         THEN CompleteInstall(s, TRUE)
         ELSE LET allInstalled == install # "failed"
                  s1 == ObserveInstall(s, IF allInstalled THEN "pluginsDirectory" ELSE "")
              IN  IF install = "notified"
                  THEN \* inside installPluginFile: emit pluginFileInstalled(mainPath, isCoreModule)
                       [s1 EXCEPT !.stack = Append(@, Frame("emitPlugin", s.cur.id, <<>>,
                                Notification(s.m_asyncState.packageName, allInstalled, "")))]
                  ELSE CompleteInstall(s1, allInstalled)
    ELSE [s EXCEPT !.net = Append(@, "file")]

\* AfterPkgEmit without currentPackageIndex++: the same package is started again.
AfterPkgEmit_NoAdvance(s) ==
    startNextPackageInQueue(
        [s EXCEPT !.m_asyncState.filesToDownload = <<>>,
                  !.m_asyncState.downloadedFiles = <<>>,
                  !.m_asyncState.currentDownloadIndex = 0])

\* The rest of startNextFileDownload after the notification was delivered.
AfterPkgEmit(s) ==
    startNextPackageInQueue(
        [s EXCEPT !.m_asyncState.filesToDownload = <<>>,
                  !.m_asyncState.downloadedFiles = <<>>,
                  !.m_asyncState.currentDownloadIndex = 0,
                  !.m_asyncState.currentPackageIndex = @ + 1])

\* finishAsyncInstallation that does not look at the request queue.
AfterFinishEmit_NoDrain(s) == s

\* The rest of finishAsyncInstallation after the notification was delivered.
AfterFinishEmit(s) == processNextRequestInQueue(s)

\* reply: [status, catalog]; sender() is the reply that finished, so the
\* "Invalid network reply" branch cannot be taken.
onPackageListFetched(s, reply, install) ==
    IF reply.status = "error"
    THEN finishAsyncInstallation(s, FALSE, "Failed to fetch package list: ")
    ELSE IF reply.status = "badjson"
    THEN finishAsyncInstallation(s, FALSE, "Failed to parse package list JSON: ")
    ELSE IF reply.status = "notarray"
    THEN finishAsyncInstallation(s, FALSE, "Package list JSON is not an array")
    ELSE LET packageObj == findPackageByName(reply.catalog, s.m_asyncState.packageName)
             s1 == [s EXCEPT !.m_asyncState.packageObj = packageObj]
         IN  IF packageObj = EmptyObject
             THEN finishAsyncInstallation(s1, FALSE, "Package not found: ")
             ELSE IF packageObj.package = ""
             THEN finishAsyncInstallation(s1, FALSE, "Package has no package file specified")
             ELSE startNextFileDownload(
                     [s1 EXCEPT !.m_asyncState.filesToDownload = Append(@, packageObj.package),
                                !.m_asyncState.currentDownloadIndex = 0],
                     install)

\* onFileDownloaded that goes on to the install step when the file could
\* not be written completely, without recording it in downloadedFiles.
onFileDownloaded_SkipWrite(s, status, install) ==
    IF status = "error"
    THEN finishAsyncInstallation(s, FALSE, "Failed to download ")
    ELSE IF status = "mkpath"
    THEN finishAsyncInstallation(s, FALSE, "Failed to create destination directory")
    ELSE IF status = "open"
    THEN finishAsyncInstallation(s, FALSE, "Failed to open file for writing: ")
    ELSE IF status = "write"
    THEN startNextFileDownload(
            [s EXCEPT !.m_asyncState.currentDownloadIndex = @ + 1], install)
    ELSE startNextFileDownload(
            [s EXCEPT !.m_asyncState.downloadedFiles =
                          Append(@, s.m_asyncState.filesToDownload[
                                        s.m_asyncState.currentDownloadIndex + 1]),
                      !.m_asyncState.currentDownloadIndex = @ + 1],
            install)

\* status: the outcome of the download and of writing it to tempDir.
onFileDownloaded(s, status, install) ==
    LET fileName ==
            s.m_asyncState.filesToDownload[s.m_asyncState.currentDownloadIndex + 1]
    IN  IF status = "error"
        THEN finishAsyncInstallation(s, FALSE, "Failed to download ")
        ELSE IF status = "mkpath"
        THEN finishAsyncInstallation(s, FALSE, "Failed to create destination directory")
        ELSE IF status = "open"
        THEN finishAsyncInstallation(s, FALSE, "Failed to open file for writing: ")
        ELSE IF status = "write"
        THEN finishAsyncInstallation(s, FALSE, "Failed to write all data to file")
        ELSE startNextFileDownload(
                [s EXCEPT !.m_asyncState.downloadedFiles = Append(@, fileName),
                          !.m_asyncState.currentDownloadIndex = @ + 1],
                install)

----------------------------------------------------------------------------
(* The environment of the engine *)

\* What the catalog endpoint may serve while a batch runs.
CatalogV1 == << Pkg("A", <<"", "B">>, "a.lgx"), Pkg("B", <<>>, "b.lgx"), Pkg("C", <<>>, "") >>
CatalogV2 == << Pkg("A", <<>>, "a.lgx") >>
NetCatalogs == {CatalogV1, CatalogV2}

\* The name lists callers submit: "A" is in both catalogs, "C" is in
\* CatalogV1 without a package file and in no other catalog.
RequestLists == { <<>>, <<"A">>, <<"C">> }

\* Results of fetchPackageListFromOnline: an empty array on any failure.
BlockingResults == {<<>>} \cup NetCatalogs

ListReplies ==
    {[status |-> st, catalog |-> <<>>] : st \in {"error", "badjson", "notarray"}}
        \cup {[status |-> "ok", catalog |-> c] : c \in NetCatalogs}

FileStatuses == {"ok", "error", "mkpath", "open", "write"}
InstallOutcomes == {"failed", "installed", "notified"}

\* installPluginFile is reached only from a handler whose reply succeeded;
\* the failure branches end the batch before it.
InstallAfter(status) == IF status = "ok" THEN InstallOutcomes ELSE {"failed"}
TempDirs == {"/tmp", ""}

\* AsyncInstallState has no initialiser for its two ints.
Indeterminate == {-1, 0, 2}

----------------------------------------------------------------------------
(* Initial state and actions of the engine *)

RdIdle == [phase |-> "idle", packageNames |-> <<>>, allPackages |-> <<>>, result |-> <<>>]

EngineStart(d, p) ==
    /\ m_isInstalling = FALSE
    /\ m_requestQueue = <<>>
    /\ m_asyncState = [packageName |-> "", packageObj |-> EmptyObject,
                       filesToDownload |-> <<>>, downloadedFiles |-> <<>>,
                       currentDownloadIndex |-> d, tempDir |-> "",
                       packageQueue |-> <<>>, currentPackageIndex |-> p]
    /\ net = <<>>
    /\ stack = <<>>
    /\ nextId = 0
    /\ activated = <<>>
    /\ hist = [id \in 1..MaxRequests |-> NoHist]
    /\ cur = NoBatch
    /\ prev = NoBatch

InitEngine == \E d \in Indeterminate, p \in Indeterminate : EngineStart(d, p)

Init == InitEngine /\ rd = RdIdle

\* A call of installPackagesAsync(names), the nextId+1-th call made, of at
\* most max calls.
Submit(names, max) ==
    LET id == nextId + 1
        s0 == [State EXCEPT !.hist[id].blocker = cur.id]
    IN  /\ nextId < max
        /\ Becomes(ObserveSubmit(s0, installPackagesAsync(s0, id, names), id, names))
        /\ nextId' = id
        /\ UNCHANGED rd

\* A caller invokes installPackagesAsync from an event (main or nested loop).
ExternalSubmit ==
    /\ InEventLoop
    /\ \E names \in RequestLists : Submit(names, MaxRequests)

\* A slot connected to installationFinished or pluginFileInstalled calls
\* installPackagesAsync synchronously.
SlotSubmit ==
    /\ InSlot
    /\ \E names \in RequestLists : Submit(names, MaxRequests)

\* The same two calls in the specification with fairness.
LiveExternalSubmit ==
    /\ InEventLoop
    /\ \E names \in RequestLists : Submit(names, MaxLiveRequests)

LiveSlotSubmit ==
    /\ InSlot
    /\ \E names \in RequestLists : Submit(names, MaxLiveRequests)

\* The blocking catalog fetch of resolveDependencies returns; the rest of
\* installPackagesAsync runs.
BlockingFetchReturns ==
    /\ stack # <<>>
    /\ Top(stack).pc = "resolve"
    /\ \E i \in DOMAIN net :
         /\ net[i] = "blocking"
         /\ \E catalog \in BlockingResults, tempDir \in TempDirs :
              Becomes(AfterResolve([State EXCEPT !.stack = Pop(@), !.net = RemoveAt(@, i)],
                                   Top(stack).names, catalog, tempDir))
    /\ UNCHANGED <<nextId, rd>>

\* QNetworkReply::finished of the asynchronous catalog fetch.
PackageListFetched ==
    /\ InEventLoop
    /\ \E i \in DOMAIN net :
         /\ net[i] = "list"
         /\ \E reply \in ListReplies :
              \E install \in InstallAfter(reply.status) :
              Becomes(onPackageListFetched([State EXCEPT !.net = RemoveAt(@, i)], reply, install))
    /\ UNCHANGED <<nextId, rd>>

\* QNetworkReply::finished of a container download.  The slot indexes
\* filesToDownload[currentDownloadIndex] first, which must be in range.
FileDownloaded ==
    /\ InEventLoop
    /\ m_asyncState.currentDownloadIndex >= 0
    /\ m_asyncState.currentDownloadIndex < Len(m_asyncState.filesToDownload)
    /\ \E i \in DOMAIN net :
         /\ net[i] = "file"
         /\ \E status \in FileStatuses :
              \E install \in InstallAfter(status) :
              Becomes(onFileDownloaded([State EXCEPT !.net = RemoveAt(@, i)], status, install))
    /\ UNCHANGED <<nextId, rd>>

\* The slots of the "No packages to install" notification have returned.
SlotReturnEmpty ==
    /\ stack # <<>>
    /\ Top(stack).pc = "emitEmpty"
    /\ Becomes([State EXCEPT !.stack = Pop(@)])
    /\ UNCHANGED <<nextId, rd>>

\* The slots of pluginFileInstalled have returned; installPluginFile returns.
SlotReturnPlugin ==
    /\ stack # <<>>
    /\ Top(stack).pc = "emitPlugin"
    /\ Becomes(CompleteInstall([State EXCEPT !.stack = Pop(@)], Top(stack).note.success))
    /\ UNCHANGED <<nextId, rd>>

\* The slots of the per-package notification have returned.
SlotReturnPkg ==
    /\ stack # <<>>
    /\ Top(stack).pc = "emitPkg"
    /\ Becomes(AfterPkgEmit([State EXCEPT !.stack = Pop(@)]))
    /\ UNCHANGED <<nextId, rd>>

\* The slots of the notification of finishAsyncInstallation have returned.
SlotReturnFinish ==
    /\ stack # <<>>
    /\ Top(stack).pc = "emitFinish"
    /\ Becomes(AfterFinishEmit([State EXCEPT !.stack = Pop(@)]))
    /\ UNCHANGED <<nextId, rd>>

Next ==
    \/ ExternalSubmit
    \/ SlotSubmit
    \/ BlockingFetchReturns
    \/ PackageListFetched
    \/ FileDownloaded
    \/ SlotReturnEmpty
    \/ SlotReturnPlugin
    \/ SlotReturnPkg
    \/ SlotReturnFinish

Spec == Init /\ [][Next]_vars

\* Every issued network request gets its reply, and the slots connected to
\* the signals return.
Fairness ==
    /\ WF_vars(BlockingFetchReturns)
    /\ WF_vars(PackageListFetched)
    /\ WF_vars(FileDownloaded)
    /\ WF_vars(SlotReturnEmpty)
    /\ WF_vars(SlotReturnPlugin)
    /\ WF_vars(SlotReturnPkg)
    /\ WF_vars(SlotReturnFinish)

NextLive ==
    \/ LiveExternalSubmit
    \/ LiveSlotSubmit
    \/ BlockingFetchReturns
    \/ PackageListFetched
    \/ FileDownloaded
    \/ SlotReturnEmpty
    \/ SlotReturnPlugin
    \/ SlotReturnPkg
    \/ SlotReturnFinish

SpecLive == Init /\ [][NextLive]_vars /\ Fairness

TypeOK ==
    /\ m_isInstalling \in BOOLEAN
    /\ Len(net) <= 3
    /\ nextId \in 0..MaxRequests

----------------------------------------------------------------------------
(* Properties of the engine *)

IsPrefix(a, b) == Len(a) <= Len(b) /\ SubSeq(b, 1, Len(a)) = a

QueueIds == [i \in DOMAIN m_requestQueue |-> m_requestQueue[i].id]

PackageNamesOf(notes) == [i \in DOMAIN notes |-> notes[i].packageName]

\* The number of installPluginFile calls in progress.
InstallsInProgress == Cardinality({i \in DOMAIN stack : stack[i].pc = "emitPlugin"})

\* C1: a request submitted while a batch was active is started only after
\* that batch has ended: either it was aborted, or every package of its
\* resolved queue (dependencies included) was fetched and reported.
C1_StartsAfterActiveBatch ==
    /\ \A id \in 1..nextId :
          (Contains(activated, id) /\ hist[id].blocker # 0)
             => hist[hist[id].blocker].ended \in {"done", "aborted"}
    /\ prev.ended = "done" =>
          /\ prev.attempts = prev.resolved
          /\ PackageNamesOf(prev.emits) = prev.resolved

\* A request that waited for a batch with a dependency is active, and that
\* batch ran to its end.
C1_Witness ==
    /\ cur.id # 0
    /\ hist[cur.id].blocker = prev.id
    /\ prev.ended = "done"
    /\ Len(prev.resolved) = 2
    /\ prev.resolved # prev.names

\* C2: requests become active in the order of their submission: the ids of
\* the activated requests increase, and no request is waiting in the queue
\* while a request submitted after it has been activated.
C2_FifoActivation ==
    /\ \A i, j \in DOMAIN activated : i < j => activated[i] < activated[j]
    /\ \A i \in DOMAIN m_requestQueue, j \in DOMAIN activated :
          activated[j] < m_requestQueue[i].id

\* C3: at most one network request of the engine is outstanding, at most one
\* install step is in progress, and never both.
C3_OneOperation == Len(net) + InstallsInProgress <= 1

\* A download is outstanding while another request waits in the queue.
C3_Witness ==
    /\ net = <<"file">>
    /\ m_requestQueue # <<>>
    /\ Len(activated) >= 2

\* C4: the packages of a batch are processed in the order of the resolved
\* queue, each position once and none skipped, and the catalog fetch of a
\* package starts only after the completion events of all packages before it.
C4_BatchOrder ==
    /\ IsPrefix(cur.attempts, cur.resolved)
    /\ IsPrefix(prev.attempts, prev.resolved)
    /\ IsPrefix(PackageNamesOf(cur.emits), cur.attempts)
    /\ Len(cur.attempts) <= Len(cur.emits) + 1
    /\ m_isInstalling /\ cur.attempts # <<>> =>
          m_asyncState.packageName = cur.attempts[Len(cur.attempts)]

\* The second package of a batch is being fetched after the first was reported.
C4_Witness ==
    /\ Len(cur.resolved) = 2
    /\ cur.attempts = cur.resolved
    /\ Len(cur.emits) = 1
    /\ net = <<"list">>


InstallFailure == "Some files failed to install"

\* The per-package notification of position i of the active batch is still
\* being delivered (its slots have not returned).
Delivering(i) ==
    /\ i = Len(cur.emits)
    /\ \E k \in DOMAIN stack : stack[k].pc = "emitPkg" /\ stack[k].id = cur.id

\* C5 as stated: whatever made a package of a batch fail, every package of
\* the resolved queue has had its attempt when the batch has ended.
C5_EveryPackageAttempted ==
    (prev.ended # "no" /\ prev.attempts # <<>>) => prev.attempts = prev.resolved

\* C5 amended: a failure of the install step does not end the batch (the
\* next package of the queue is attempted as soon as the notification has
\* been delivered, and a batch that ends after it ends as complete, with
\* every package attempted), while every failure before the install step
\* ends the batch at the failing package: nothing after it is attempted.
C5_InstallFailureContinues ==
    /\ \A i \in DOMAIN cur.emits :
          (~cur.emits[i].success /\ i < Len(cur.resolved))
             => (Delivering(i) \/ Len(cur.attempts) >= i + 1)
    /\ prev.ended = "done" => prev.attempts = prev.resolved
    /\ prev.ended = "aborted" =>
          /\ prev.emits[Len(prev.emits)].error # InstallFailure
          /\ Len(prev.attempts) <= Len(prev.emits)
    /\ \A i \in DOMAIN prev.emits :
          prev.emits[i].error = InstallFailure => i <= Len(prev.installs)

\* The install step of the first package failed and the second package is
\* being fetched.
C5_Witness ==
    /\ Len(cur.emits) = 1
    /\ ~cur.emits[1].success
    /\ Len(cur.attempts) = 2
    /\ net = <<"list">>

\* C6: a request that was active and has ended has caused a notification,
\* and a batch that was aborted ended with a notification with an error.
C6_EndedIsNotified ==
    /\ \A id \in 1..nextId : hist[id].ended # "no" => hist[id].notified
    /\ prev.ended = "aborted" =>
          /\ ~prev.emits[Len(prev.emits)].success
          /\ prev.emits[Len(prev.emits)].error # ""

\* The queue as it must be after a step: entries leave at the head only,
\* and only to become the active batch; the others keep their order, and
\* new entries are added behind them.
QueueKept ==
    LET q == QueueIds
        qn == [i \in DOMAIN m_requestQueue' |-> m_requestQueue'[i].id]
        Kept(k) ==
            /\ k <= Len(q)
            /\ IsPrefix(SubSeq(q, k + 1, Len(q)), qn)
            /\ \A i \in (Len(q) - k + 1)..Len(qn) : qn[i] > nextId
            /\ k = 1 => (activated' = Append(activated, q[1]) /\ cur'.id = q[1])
    IN  Kept(0) \/ Kept(1)

\* A request is activated from the head of the queue, if there is one.
HeadFirst ==
    (activated' # activated /\ m_requestQueue # <<>>)
        => activated' = Append(activated, m_requestQueue[1].id)

\* C7: when a step of a batch fails, the waiting requests are neither
\* dropped nor reordered, and the head of the queue is activated next.
C7_QueueSurvivesFailure == [][QueueKept /\ HeadFirst]_vars

\* C9: every package that reached the install step has exactly one
\* notification, emitted before currentPackageIndex advances, with
\* success iff installPluginFile returned a non-empty path and an empty
\* error iff success; a batch whose packages all reach the install step
\* ends with one notification per package, in queue order.
C9_OneEventPerPackage ==
    /\ Len(cur.emits) <= Len(cur.installs)
    /\ Len(cur.installs) <= Len(cur.emits) + 1
    /\ Len(cur.installs) = Len(cur.emits) + 1 => (InstallsInProgress = 1)
    /\ \A i \in DOMAIN cur.emits :
          /\ cur.emits[i].packageName = cur.resolved[i]
          /\ cur.emits[i].success = (cur.installs[i] # "")
          /\ (cur.emits[i].error = "") = cur.emits[i].success
    /\ m_isInstalling /\ cur.attempts # <<>> =>
          m_asyncState.currentPackageIndex =
              Len(cur.emits) - (IF Delivering(Len(cur.emits)) THEN 1 ELSE 0)
    /\ (prev.ended # "no" /\ prev.resolved # <<>>
            /\ Len(prev.installs) = Len(prev.resolved)) =>
          /\ prev.ended = "done"
          /\ PackageNamesOf(prev.emits) = prev.resolved
          /\ \A i \in DOMAIN prev.emits :
                prev.emits[i].success = (prev.installs[i] # "")

\* A batch of two packages has ended, the first installed, the second not.
C9_Witness ==
    /\ prev.ended = "done"
    /\ Len(prev.resolved) = 2
    /\ prev.installs = <<"pluginsDirectory", "">>
    /\ Len(prev.emits) = 2


Idle == ~m_isInstalling /\ m_requestQueue = <<>> /\ net = <<>> /\ stack = <<>>

\* C8: when every network request gets its reply, the engine comes to rest:
\* from some point on it is idle with an empty queue, and every request
\* that was put in the queue has been the active batch.
C8_QueueDrains ==
    <>[](Idle /\ \A id \in 1..MaxRequests : hist[id].queued => Contains(activated, id))

\* A request that had to wait has become active and the engine is idle again.
C8_Witness ==
    /\ Idle
    /\ \E id \in 1..nextId : Contains(activated, id) /\ hist[id].queued
    /\ prev.ended = "done"
    /\ prev.resolved # <<>>


----------------------------------------------------------------------------
(* The dependency resolver on its own *)

Names == {"A", "B", "C"}

SeqsUpTo(S, n) == UNION {[1..k -> S] : k \in 0..n}

\* The lists of at most n elements of S that name no element twice.
DistinctSeqsUpTo(S, n) ==
    {s \in SeqsUpTo(S, n) : \A i, j \in DOMAIN s : s[i] = s[j] => i = j}

\* A catalog over Names: each name is absent, or present with a list of at
\* most MaxDeps dependency names (its own name included), none twice.
Entries ==
    {[present |-> FALSE, dependencies |-> <<>>]}
        \cup {[present |-> TRUE, dependencies |-> d] : d \in DistinctSeqsUpTo(Names, MaxDeps)}

CatalogOf(f) ==
    SelectSeq(<< Pkg("A", f["A"].dependencies, "a.lgx"),
                 Pkg("B", f["B"].dependencies, "b.lgx"),
                 Pkg("C", f["C"].dependencies, "c.lgx") >>,
              LAMBDA p : f[p.name].present)

ResolveCatalogs == {CatalogOf(f) : f \in [Names -> Entries]}

InitResolve ==
    /\ EngineStart(0, 0)
    /\ \E packageNames \in SeqsUpTo(Names, MaxRoots), allPackages \in ResolveCatalogs :
          rd = [phase |-> "call", packageNames |-> packageNames,
                allPackages |-> allPackages, result |-> <<>>]

\* resolveDependencies(packageNames) with allPackages the fetched catalog.
ResolveCall ==
    /\ rd.phase = "call"
    /\ rd' = [rd EXCEPT !.phase = "done",
                        !.result = resolveDependencies(rd.packageNames, rd.allPackages)]
    /\ UNCHANGED <<m_isInstalling, m_requestQueue, m_asyncState, net, stack,
                   nextId, activated, hist, cur, prev>>

NextResolve == ResolveCall

SpecResolve == InitResolve /\ [][NextResolve]_vars

Exists(catalog, name) == \E i \in DOMAIN catalog : catalog[i].name = name

\* The non-empty names the first record called `name` lists as dependencies.
DirectDeps(catalog, name) ==
    LET d == findPackageByName(catalog, name).dependencies
    IN  {d[i] : i \in DOMAIN d} \ {""}

RECURSIVE Closure(_, _)
Closure(catalog, set) ==
    LET more == set \cup UNION {DirectDeps(catalog, y) : y \in set}
    IN  IF more = set THEN set ELSE Closure(catalog, more)

\* Direct and transitive dependencies.
TransDeps(catalog, name) == Closure(catalog, DirectDeps(catalog, name))

Acyclic(catalog) ==
    \A i \in DOMAIN catalog : catalog[i].name \notin TransDeps(catalog, catalog[i].name)

\* C10: for an acyclic catalog, every direct or transitive dependency of a
\* returned package that exists in the catalog is returned at a strictly
\* smaller index than the package.
C10_DependenciesFirst ==
    (rd.phase = "done" /\ Acyclic(rd.allPackages)) =>
        \A i \in DOMAIN rd.result :
            \A d \in TransDeps(rd.allPackages, rd.result[i]) :
                Exists(rd.allPackages, d) =>
                    \E j \in 1..(i - 1) : rd.result[j] = d

\* Two roots, the first a transitive dependency of the second.
C10_Witness ==
    /\ rd.phase = "done"
    /\ Acyclic(rd.allPackages)
    /\ rd.packageNames = <<"B", "A">>
    /\ rd.result = <<"C", "B", "A">>
    /\ DirectDeps(rd.allPackages, "A") = {"B"}


\* C12: the sequence returned by resolveDependencies holds no name twice,
\* whatever the request list and whatever the catalog fetch returned.
C12_NoDuplicates ==
    rd.phase = "done" =>
        \A i, j \in DOMAIN rd.result : rd.result[i] = rd.result[j] => i = j

InResult(name) == Contains(rd.result, name)

\* C13: against a non-empty catalog a name that is absent from the catalog
\* is left out of the result and nothing else is lost: every requested name
\* that exists is returned, and so is every existing dependency of a
\* returned package, next to the package that declared a missing one.
C13_MissingNameSkipped ==
    (rd.phase = "done" /\ rd.allPackages # <<>>) =>
        /\ \A i \in DOMAIN rd.result : Exists(rd.allPackages, rd.result[i])
        /\ \A i \in DOMAIN rd.packageNames :
              Exists(rd.allPackages, rd.packageNames[i]) => InResult(rd.packageNames[i])
        /\ \A i \in DOMAIN rd.result :
              \A d \in DirectDeps(rd.allPackages, rd.result[i]) :
                  Exists(rd.allPackages, d) => InResult(d)

\* A requested name and a dependency are missing; the other requested
\* package, which declared the missing dependency first, is returned with
\* its other dependency.
C13_Witness ==
    /\ rd.phase = "done"
    /\ rd.packageNames = <<"C", "A">>
    /\ ~Exists(rd.allPackages, "C")
    /\ findPackageByName(rd.allPackages, "A").dependencies = <<"C", "B">>
    /\ rd.result = <<"B", "A">>

----------------------------------------------------------------------------
(* The dependency resolver step by step: one step per call, loop iteration
   and return of resolveDependenciesRecursive, so that a resolution that
   does not end is a behaviour that never reaches "done". *)

MaxCycleDeps == 1
MaxCycleRoots == 1
\* The deepest recursion the steps may reach (the code has no limit).
MaxFrames == 4

\* One activation of resolveDependenciesRecursive: its packageName, the
\* dependencies its loop has still to visit, and its local result.
Activation(packageName, dependencies) ==
    [packageName |-> packageName, dependencies |-> dependencies, result |-> <<>>]

\* resolveDependenciesRecursive without the processed set.
EnterRecursive_NoVisited(r, packageName) ==
    LET packageObj == findPackageByName(r.allPackages, packageName)
    IN  IF packageObj = EmptyObject THEN r
        ELSE [r EXCEPT !.frames =
                 Append(@, Activation(packageName, packageObj.dependencies))]

\* The call resolveDependenciesRecursive(packageName, allPackages, processed)
\* up to its loop: it returns an empty list at once (the caller has nothing
\* to merge), or a new activation starts.
EnterRecursive(r, packageName) ==
    IF packageName \in r.processed THEN r
    ELSE LET packageObj == findPackageByName(r.allPackages, packageName)
             r1 == [r EXCEPT !.processed = @ \cup {packageName}]
         IN  IF packageObj = EmptyObject THEN r1
             ELSE [r1 EXCEPT !.frames =
                      Append(@, Activation(packageName, packageObj.dependencies))]

\* The return of the top activation: result.append(packageName), and the
\* caller merges the returned list into its own result.
ReturnRecursive(r) ==
    LET top == Top(r.frames)
        returned == Append(top.result, top.packageName)
        rest == Pop(r.frames)
    IN  IF rest = <<>>
        THEN [r EXCEPT !.frames = rest, !.result = AppendNew(@, returned)]
        ELSE [r EXCEPT !.frames =
                 [rest EXCEPT ![Len(rest)].result = AppendNew(@, returned)]]

CycleEntries ==
    {[present |-> FALSE, dependencies |-> <<>>]}
        \cup {[present |-> TRUE, dependencies |-> d] : d \in SeqsUpTo(Names, MaxCycleDeps)}

CycleCatalogs == {CatalogOf(f) : f \in [Names -> CycleEntries]}

InitResolveSteps ==
    /\ EngineStart(0, 0)
    /\ \E packageNames \in SeqsUpTo(Names, MaxCycleRoots), allPackages \in CycleCatalogs :
          rd = [phase |-> "call", packageNames |-> packageNames,
                allPackages |-> allPackages, result |-> <<>>,
                roots |-> <<>>, frames |-> <<>>, processed |-> {}]

EngineUnchanged ==
    UNCHANGED <<m_isInstalling, m_requestQueue, m_asyncState, net, stack,
                nextId, activated, hist, cur, prev>>

\* resolveDependencies up to its loop over packageNames.
ResolveBegin ==
    /\ rd.phase = "call"
    /\ rd' = IF rd.allPackages = <<>>
             THEN [rd EXCEPT !.phase = "done", !.result = rd.packageNames]
             ELSE [rd EXCEPT !.phase = "roots", !.roots = rd.packageNames]
    /\ EngineUnchanged

\* One iteration of the loop of resolveDependencies, or its end.
ResolveNextRoot ==
    /\ rd.phase = "roots"
    /\ rd.frames = <<>>
    /\ rd' = IF rd.roots = <<>>
             THEN [rd EXCEPT !.phase = "done"]
             ELSE EnterRecursive([rd EXCEPT !.roots = Tail(@)], Head(rd.roots))
    /\ EngineUnchanged

\* One iteration of the loop over dependencies of the top activation.
ResolveNextDep ==
    /\ rd.phase = "roots"
    /\ rd.frames # <<>>
    /\ Len(rd.frames) < MaxFrames
    /\ Top(rd.frames).dependencies # <<>>
    /\ LET depName == Head(Top(rd.frames).dependencies)
           r1 == [rd EXCEPT !.frames[Len(rd.frames)].dependencies = Tail(@)]
       IN  rd' = IF depName = "" THEN r1 ELSE EnterRecursive(r1, depName)
    /\ EngineUnchanged

\* The top activation has visited all its dependencies and returns.
ResolveReturn ==
    /\ rd.phase = "roots"
    /\ rd.frames # <<>>
    /\ Top(rd.frames).dependencies = <<>>
    /\ rd' = ReturnRecursive(rd)
    /\ EngineUnchanged

NextResolveSteps ==
    \/ ResolveBegin
    \/ ResolveNextRoot
    \/ ResolveNextDep
    \/ ResolveReturn

\* A call that can take its next step takes it.
SpecResolveSteps ==
    InitResolveSteps /\ [][NextResolveSteps]_vars /\ WF_vars(NextResolveSteps)

Cyclic(catalog) == ~Acyclic(catalog)

\* C11: resolveDependencies terminates for every catalog, with or without
\* dependency cycles, and what it returns is determined by the request and
\* the catalog: every resolution reaches its end with no activation left,
\* and there its result is the value of the function resolveDependencies.
C11_Terminates ==
    <>[](/\ rd.phase = "done"
         /\ rd.frames = <<>>
         /\ rd.result = resolveDependencies(rd.packageNames, rd.allPackages))

\* The resolution of a request against the cycle A -> B -> C -> A has ended.
C11_Witness ==
    /\ rd.phase = "done"
    /\ rd.packageNames = <<"A">>
    /\ DirectDeps(rd.allPackages, "A") = {"B"}
    /\ DirectDeps(rd.allPackages, "B") = {"C"}
    /\ DirectDeps(rd.allPackages, "C") = {"A"}
    /\ Cyclic(rd.allPackages)
    /\ rd.result = <<"C", "B", "A">>

----------------------------------------------------------------------------
(* versionGreaterOrEqual.  A QString is a sequence of characters. *)

MaxVersionLen == 3

Digits == <<"0", "1", "2", "3", "4", "5", "6", "7", "8", "9">>

IsDigit(c) == \E d \in DOMAIN Digits : Digits[d] = c

DigitValue(c) == (CHOOSE d \in DOMAIN Digits : Digits[d] = c) - 1

\* QString::split('.'): the parts between the dots, empty parts kept.
RECURSIVE splitFrom(_, _, _)
splitFrom(s, i, part) ==
    IF i > Len(s) THEN <<part>>
    ELSE IF s[i] = "." THEN <<part>> \o splitFrom(s, i + 1, <<>>)
    ELSE splitFrom(s, i + 1, Append(part, s[i]))

split(s) == splitFrom(s, 1, <<>>)

RECURSIVE StripZeros(_)
StripZeros(part) ==
    IF Len(part) > 1 /\ Head(part) = "0" THEN StripZeros(Tail(part)) ELSE part

\* Order of two digit strings without leading zeros: -1, 0 or 1.
RECURSIVE CompareDigits(_, _)
CompareDigits(p, q) ==
    IF Len(p) # Len(q) THEN (IF Len(p) < Len(q) THEN -1 ELSE 1)
    ELSE IF p = <<>> THEN 0
    ELSE IF Head(p) # Head(q)
         THEN (IF DigitValue(Head(p)) < DigitValue(Head(q)) THEN -1 ELSE 1)
    ELSE CompareDigits(Tail(p), Tail(q))

\* INT_MAX, 2147483647, the largest value QString::toInt() returns.
IntMaxDigits == <<"2", "1", "4", "7", "4", "8", "3", "6", "4", "7">>

RECURSIVE DecimalValue(_, _)
DecimalValue(part, acc) ==
    IF part = <<>> THEN acc
    ELSE DecimalValue(Tail(part), 10 * acc + DigitValue(Head(part)))

\* QString::toInt() for a string of digits, dots excluded by split: the
\* value, or 0 when the conversion fails (empty string, a character that is
\* not a digit, a value above INT_MAX).
toInt(part) ==
    IF part = <<>> \/ \E i \in DOMAIN part : ~IsDigit(part[i]) THEN 0
    ELSE IF CompareDigits(StripZeros(part), IntMaxDigits) = 1 THEN 0
    ELSE DecimalValue(StripZeros(part), 0)

Max(x, y) == IF x >= y THEN x ELSE y

\* for (int i = 0; i < len; ++i) ... return true;
RECURSIVE versionLoop(_, _, _, _)
versionLoop(ap, bp, i, len) ==
    IF i >= len THEN TRUE
    ELSE LET av == IF i < Len(ap) THEN toInt(ap[i + 1]) ELSE 0
             bv == IF i < Len(bp) THEN toInt(bp[i + 1]) ELSE 0
         IN  IF av # bv THEN av > bv
             ELSE versionLoop(ap, bp, i + 1, len)

versionGreaterOrEqual(a, b) ==
    LET ap == split(a)
        bp == split(b)
    IN  versionLoop(ap, bp, 0, Max(Len(ap), Len(bp)))

V_1_10_0 == <<"1", ".", "1", "0", ".", "0">>
V_1_9_9 == <<"1", ".", "9", ".", "9">>
V_1_2 == <<"1", ".", "2">>
V_1_2_0 == <<"1", ".", "2", ".", "0">>
V_1 == <<"1">>
V_2 == <<"2">>
V_IntMax == IntMaxDigits
V_IntMaxPlus1 == <<"2", "1", "4", "7", "4", "8", "3", "6", "4", "8">>

VersionChars == {"0", "1", "2", "."}

\* The version strings compared: every short string over VersionChars, the
\* versions of the examples, and the segments at the edge of int.
VersionStrings ==
    SeqsUpTo(VersionChars, MaxVersionLen)
        \cup {V_1_10_0, V_1_9_9, V_1_2, V_1_2_0, V_1, V_2, V_IntMax, V_IntMaxPlus1}

InitVersion ==
    /\ EngineStart(0, 0)
    /\ \E a \in VersionStrings, b \in VersionStrings :
          rd = [phase |-> "call", a |-> a, b |-> b, result |-> FALSE]

\* One call versionGreaterOrEqual(a, b).
VersionCall ==
    /\ rd.phase = "call"
    /\ rd' = [rd EXCEPT !.phase = "done", !.result = versionGreaterOrEqual(rd.a, rd.b)]
    /\ EngineUnchanged

NextVersion == VersionCall

SpecVersion == InitVersion /\ [][NextVersion]_vars

\* Every part between the dots is a non-empty string of digits.
IntegerSegments(s) ==
    \A k \in DOMAIN split(s) :
        /\ split(s)[k] # <<>>
        /\ \A i \in DOMAIN split(s)[k] : IsDigit(split(s)[k][i])

\* The k-th integer segment of s after padding with zeros.
Segment(s, k) == IF k <= Len(split(s)) THEN StripZeros(split(s)[k]) ELSE <<"0">>

\* The padded segment sequence of a is lexicographically >= that of b.
LexGreaterOrEqual(a, b) ==
    LET len == Max(Len(split(a)), Len(split(b)))
        Differ == {k \in 1..len : CompareDigits(Segment(a, k), Segment(b, k)) # 0}
    IN  \/ Differ = {}
        \/ LET first == CHOOSE k \in Differ : \A j \in Differ : k <= j
           IN  CompareDigits(Segment(a, first), Segment(b, first)) = 1

\* C14: for versions made of integer segments, versionGreaterOrEqual(a, b)
\* is true exactly when the segments of a, padded with zeros to the longer
\* length, are lexicographically >= those of b; ("1.10.0","1.9.9") and
\* ("1.2","1.2.0") give true, ("1","2") gives false, equal versions true.
C14_SegmentwiseOrder ==
    (rd.phase = "done" /\ IntegerSegments(rd.a) /\ IntegerSegments(rd.b)) =>
        /\ rd.result = LexGreaterOrEqual(rd.a, rd.b)
        /\ (rd.a = V_1_10_0 /\ rd.b = V_1_9_9) => rd.result
        /\ (rd.a = V_1_2 /\ rd.b = V_1_2_0) => rd.result
        /\ (rd.a = V_1 /\ rd.b = V_2) => ~rd.result
        /\ rd.a = rd.b => rd.result

----------------------------------------------------------------------------
(* installPluginFile: platform tags, containers and the file system *)

\* The values currentPlatformVariant() can return, one per build.
PlatformVariants ==
    {"darwin-arm64", "darwin-x86_64", "linux-x86_64", "linux-arm64", "linux-x86",
     "windows-x86_64", "windows-x86", "unknown"}

platformVariantsToTry(primary) ==
    <<primary>> \o
        (IF primary = "linux-x86_64" THEN <<"linux-amd64">>
         ELSE IF primary = "linux-amd64" THEN <<"linux-x86_64">>
         ELSE IF primary = "linux-arm64" THEN <<"linux-aarch64">>
         ELSE IF primary = "linux-aarch64" THEN <<"linux-arm64">>
         ELSE <<>>)

\* #if defined(Q_OS_MAC) ".dylib" #elif defined(Q_OS_WIN) ".dll" #else ".so"
libExtension(primary) ==
    IF primary \in {"darwin-arm64", "darwin-x86_64"} THEN ".dylib"
    ELSE IF primary \in {"windows-x86_64", "windows-x86"} THEN ".dll"
    ELSE ".so"

\* A file name: what precedes its last part, and the last part with its dot
\* ("" when the name has no dot).
FileName(base, ext) == [base |-> base, ext |-> ext]

NoName == FileName("", "")
ManifestFile == FileName("manifest", ".json")
DataFile == FileName("readme", ".txt")
LibraryFile(primary) == FileName("A", libExtension(primary))

V_1_9_0 == <<"1", ".", "9", ".", "0">>
V_2_0_0 == <<"2", ".", "0", ".", "0">>

\* The "main" object of a manifest: at most one tag has an entry here.
NoMain == [tag |-> "", file |-> NoName]

\* mainObj.value(v).toString()
MainValue(main, v) == IF main.tag = v /\ v # "" THEN main.file ELSE NoName

\* An LGX container: the fields of its manifest (name, version, type,
\* main), the tags of the variants it has (lgx_has_variant) and the files
\* of a variant subtree.
Container(name, version, type, main, tags, files) ==
    [name |-> name, version |-> version, type |-> type, main |-> main,
     tags |-> tags, files |-> files]

\* Where a file on disk comes from: the manifest of the container that was
\* installed, and the variant the file belongs to.
Origin(container, tag) ==
    [name |-> container.name, version |-> container.version,
     type |-> container.type, main |-> container.main, tag |-> tag]

\* One file <dir>/<module>/<file> of a plugins directory.
Installed(dir, module, file, origin) ==
    [dir |-> dir, module |-> module, file |-> file, origin |-> origin]

FilesOf(fs, dir, module) == {f \in fs : f.dir = dir /\ f.module = module}

FileExists(fs, dir, module, file) ==
    \E f \in FilesOf(fs, dir, module) : f.file = file

\* The version field of <dir>/<module>/manifest.json, "" if the file cannot
\* be opened.
InstalledVersion(fs, dir, module) ==
    IF FileExists(fs, dir, module, ManifestFile)
    THEN (CHOOSE f \in FilesOf(fs, dir, module) : f.file = ManifestFile).origin.version
    ELSE <<>>

\* QCoreApplication::applicationDirPath() + "/bin/modules", and the
\* directories the engine can be configured with.
DefaultModulesDir == "app/bin/modules"
ConfiguredModulesDir == "/opt/modules"
ConfiguredUiDir == "/opt/ui"

\* modulesDirObj.cdUp(); modulesDirObj.filePath("plugins"), when cdUp()
\* moves to the parent directory.
SiblingPluginsDir(modulesDir) ==
    IF modulesDir = DefaultModulesDir THEN "app/bin/plugins" ELSE "/opt/plugins"

\* The same when cdUp() returns false: QDir::cd does not move to a directory
\* that does not exist, and the return value is not looked at.
NestedPluginsDir(modulesDir) ==
    IF modulesDir = DefaultModulesDir THEN "app/bin/modules/plugins"
    ELSE "/opt/modules/plugins"

\* What goes wrong in the environment during one call, if anything: kind
\* names the operation that fails, a failing copy also the file it fails at.
Fault(kind, at) == [kind |-> kind, at |-> at]
NoFault == Fault("none", NoName)

\* The entries of a variant directory in the order of entryInfoList (QDir
\* sorts by name, ignoring case): A.* < manifest.json < readme.txt.
NameRank(file) == IF file.base = "A" THEN 1 ELSE IF file = ManifestFile THEN 2 ELSE 3

\* The entries that were copied when copying fails at the entry at.
CopiedBefore(names, at) == {n \in names : NameRank(n) < NameRank(at)}

\* The search taking the last tag of variants that is in present.
RECURSIVE FirstVariant_Last(_, _)
FirstVariant_Last(variants, present) ==
    IF variants = <<>> THEN ""
    ELSE IF variants[Len(variants)] \in present THEN variants[Len(variants)]
    ELSE FirstVariant_Last(SubSeq(variants, 1, Len(variants) - 1), present)

\* The first tag of variants that is in present, "" if there is none.
RECURSIVE FirstVariant(_, _)
FirstVariant(variants, present) ==
    IF variants = <<>> THEN ""
    ELSE IF Head(variants) \in present THEN Head(variants)
    ELSE FirstVariant(Tail(variants), present)

\* The first non-empty main entry in the order of variants.
RECURSIVE FirstMain(_, _)
FirstMain(variants, main) ==
    IF variants = <<>> THEN NoName
    ELSE IF MainValue(main, Head(variants)) # NoName THEN MainValue(main, Head(variants))
    ELSE FirstMain(Tail(variants), main)

\* dir.entryInfoList(filters, QDir::Files, QDir::Name).first().completeBaseName()
\* over the library files of the variant directory ("" if there is none;
\* the containers here have at most one library file).
FirstLibraryBaseName(files, primary) ==
    IF \E f \in files : f.ext = libExtension(primary)
    THEN (CHOOSE f \in files : f.ext = libExtension(primary)).base
    ELSE ""

\* The files of dir/module after the files of names were written from the
\* extracted variant: a file of the same name is removed first.
Written(fs, dir, module, names, origin) ==
    {f \in fs : ~(f.dir = dir /\ f.module = module /\ f.file \in names)}
        \cup {Installed(dir, module, n, origin) : n \in names}

\* copyDirectoryContents that undoes what it copied when a file fails.
copyDirectoryContents_Rollback(fs, names, origin, dir, module, fault) ==
    IF fault.kind = "remove" /\ fault.at \in names /\ FileExists(fs, dir, module, fault.at)
    THEN [ok |-> FALSE, errorMsg |-> "Failed to remove existing file", fs |-> fs]
    ELSE IF fault.kind = "copy" /\ fault.at \in names
    THEN [ok |-> FALSE, errorMsg |-> "Failed to copy file", fs |-> fs]
    ELSE [ok |-> TRUE, errorMsg |-> "", fs |-> Written(fs, dir, module, names, origin)]

\* copyDirectoryContents(variantDir, moduleSubDir, errorMsg) for a variant
\* directory that holds the files of names.
copyDirectoryContents(fs, names, origin, dir, module, fault) ==
    IF fault.kind = "remove" /\ fault.at \in names /\ FileExists(fs, dir, module, fault.at)
    THEN [ok |-> FALSE, errorMsg |-> "Failed to remove existing file",
          fs |-> Written(fs, dir, module, CopiedBefore(names, fault.at), origin)]
    ELSE IF fault.kind = "copy" /\ fault.at \in names
    THEN [ok |-> FALSE, errorMsg |-> "Failed to copy file",
          fs |-> {f \in Written(fs, dir, module, CopiedBefore(names, fault.at), origin) :
                     ~(f.dir = dir /\ f.module = module /\ f.file = fault.at)}]
    ELSE [ok |-> TRUE, errorMsg |-> "", fs |-> Written(fs, dir, module, names, origin)]

\* extractLgxPackage: matchedVariant is the tag that was extracted into
\* outputDir ("" if nothing was).
extractLgxPackage(container, primary, fault) ==
    LET matchedVariant == FirstVariant(platformVariantsToTry(primary), container.tags)
        Failed(msg) == [ok |-> FALSE, errorMsg |-> msg, matchedVariant |-> ""]
    IN  IF fault.kind = "load" THEN Failed("Failed to load LGX package")
        ELSE IF matchedVariant = ""
        THEN Failed("Package does not contain variant for platform")
        ELSE IF fault.kind = "extract" THEN Failed("Failed to extract variant")
        ELSE IF fault.kind = "manifest" THEN Failed("Failed to write manifest.json")
        ELSE [ok |-> TRUE, errorMsg |-> "", matchedVariant |-> matchedVariant]

\* copyLibraryFromExtracted: extracted is the set of variant directories in
\* extractedDir, names the files of each of them.
copyLibraryFromExtracted(fs, container, extracted, names, targetDir, primary, fault) ==
    LET variantDir == FirstVariant(platformVariantsToTry(primary), extracted)
        moduleName == IF container.name # "" THEN container.name
                      ELSE FirstLibraryBaseName(names, primary)
        Failed(msg) == [ok |-> FALSE, errorMsg |-> msg, fs |-> fs,
                        outModuleName |-> "", variant |-> variantDir]
    IN  IF variantDir = "" THEN Failed("Extracted variant directory not found")
        ELSE IF moduleName = ""
        THEN Failed("No library files found and no name in manifest")
        ELSE LET c == copyDirectoryContents(fs, names, Origin(container, variantDir),
                                            targetDir, moduleName, fault)
             IN  [ok |-> c.ok, errorMsg |-> c.errorMsg, fs |-> c.fs,
                  outModuleName |-> moduleName, variant |-> variantDir]

\* The configuration and build of the engine during a call.
Environment(primary, pluginsDirectory, uiPluginsDirectory) ==
    [primary |-> primary, m_pluginsDirectory |-> pluginsDirectory,
     m_uiPluginsDirectory |-> uiPluginsDirectory]

\* The skip test comparing with > instead of >=: an equal version is
\* installed again.
AlreadyInstalled_Strict(fs, env, container, fault) ==
    /\ fault.kind # "load"
    /\ container.name # ""
    /\ container.version # <<>>
    /\ \E baseDir \in {env.m_pluginsDirectory, env.m_uiPluginsDirectory} \ {""} :
          LET installedVersion == InstalledVersion(fs, baseDir, container.name)
          IN  /\ installedVersion # <<>>
              /\ ~versionGreaterOrEqual(container.version, installedVersion)

\* The test of the skipIfNotNewerVersion block: lgx_load succeeded, the
\* container has a name and a version, and a configured base directory has
\* a manifest of that module with a version that is not older.
AlreadyInstalled(fs, env, container, fault) ==
    /\ fault.kind # "load"
    /\ container.name # ""
    /\ container.version # <<>>
    /\ \E baseDir \in {env.m_pluginsDirectory, env.m_uiPluginsDirectory} \ {""} :
          LET installedVersion == InstalledVersion(fs, baseDir, container.name)
          IN  /\ installedVersion # <<>>
              /\ versionGreaterOrEqual(installedVersion, container.version)

\* m_pluginsDirectory, or the default under the application directory.
ModulesDirectory(env) ==
    IF env.m_pluginsDirectory = "" THEN DefaultModulesDir ELSE env.m_pluginsDirectory

\* The parent of the modules directory exists: always when a plugins
\* directory below it holds files, otherwise unless the fault says it does not.
ParentExists(fs, env, fault) ==
    \/ fault.kind # "cdup"
    \/ \E f \in fs : f.dir \in {ModulesDirectory(env),
                                 SiblingPluginsDir(ModulesDirectory(env))}

\* The directory the module goes to, by its type.
TargetDirectory(env, isCoreModule, parentExists) ==
    IF isCoreModule THEN ModulesDirectory(env)
    ELSE IF env.m_uiPluginsDirectory # "" THEN env.m_uiPluginsDirectory
    ELSE IF parentExists THEN SiblingPluginsDir(ModulesDirectory(env))
    ELSE NestedPluginsDir(ModulesDirectory(env))

\* Module names that contain a dot.
DottedNames == {"org.A"}

\* mainFile.contains('.') for a file name kept as base and extension.
HasDot(file) == file.ext # "" \/ file.base \in DottedNames

\* The entry-point file named by the installed manifest, or the module name,
\* with the library extension when the name has no dot and the package is
\* not of type ui_qml.
EntryPointFile(fs, dir, module, detectedType, primary) ==
    LET main == IF FileExists(fs, dir, module, ManifestFile)
                THEN (CHOOSE f \in FilesOf(fs, dir, module) :
                          f.file = ManifestFile).origin.main
                ELSE NoMain
        named == FirstMain(platformVariantsToTry(primary), main)
        mainFile == IF named = NoName THEN FileName(module, "") ELSE named
    IN  IF detectedType # "ui_qml" /\ ~HasDot(mainFile)
        THEN FileName(mainFile.base, libExtension(primary))
        ELSE mainFile

PluginFileInstalled(dir, module, file, isCoreModule) ==
    [dir |-> dir, module |-> module, file |-> file, isCoreModule |-> isCoreModule]

\* The notification emitted whether or not the entry-point file exists.
NotifyInstalled_Unchecked(fs, dir, module, mainFile, isCoreModule) ==
    <<PluginFileInstalled(dir, module, mainFile, isCoreModule)>>

\* if (QFile::exists(mainPath)) emit pluginFileInstalled(mainPath, isCoreModule);
NotifyInstalled(fs, dir, module, mainFile, isCoreModule) ==
    IF FileExists(fs, dir, module, mainFile)
    THEN <<PluginFileInstalled(dir, module, mainFile, isCoreModule)>>
    ELSE <<>>

\* The outcome of a call: the returned string, errorMsg, the plugins
\* directories afterwards, the notifications emitted, the variant that was
\* extracted and the files left in the QTemporaryDir.
Outcome(path, errorMsg, fs, emitted, variant) ==
    [path |-> path, errorMsg |-> errorMsg, fs |-> fs, emitted |-> emitted,
     variant |-> variant, scratch |-> {}]

\* The value of skipIfNotNewerVersion in a call installPluginFile(pluginPath,
\* errorMsg) that does not pass it: the version test is applied only when
\* the caller asks for it.
SkipIfNotNewerVersionDefault == FALSE

\* installPluginFile applying the version test whatever the caller passes.
installPluginFile_AlwaysSkip(fs, env, container, skipIfNotNewerVersion, fault) ==
    LET Failed(msg) == Outcome("", msg, fs, <<>>, "")
        x == extractLgxPackage(container, env.primary, fault)
        names == container.files \cup {ManifestFile}
        \* the manifest written into the extracted variant directory
        detectedType == container.type
        isCoreModule == detectedType = "core"
        pluginsDirectory == TargetDirectory(env, isCoreModule, ParentExists(fs, env, fault))
        c == copyLibraryFromExtracted(fs, container, {x.matchedVariant}, names,
                                      pluginsDirectory, env.primary, fault)
        mainFile == EntryPointFile(c.fs, pluginsDirectory, c.outModuleName,
                                   detectedType, env.primary)
    IN  IF fault.kind = "nofile"
        THEN Failed("Source plugin file does not exist or is not a file")
        ELSE IF fault.kind = "suffix"
        THEN Failed("Only LGX packages are supported")
        ELSE IF AlreadyInstalled(fs, env, container, fault)
        THEN Outcome("skipped", "", fs, <<>>, "")
        ELSE IF fault.kind = "tempdir"
        THEN Failed("Failed to create temporary directory for LGX extraction")
        ELSE IF ~x.ok THEN Failed(x.errorMsg)
        ELSE IF fault.kind = "mkpath"
                /\ ~\E f \in fs : f.dir = pluginsDirectory
        THEN Failed("Failed to create plugins directory")
        ELSE IF ~c.ok
        THEN Outcome("", c.errorMsg, c.fs, <<>>, x.matchedVariant)
        ELSE Outcome(pluginsDirectory, "", c.fs,
                     NotifyInstalled(c.fs, pluginsDirectory, c.outModuleName,
                                     mainFile, isCoreModule),
                     x.matchedVariant)

\* installPluginFile(pluginPath, errorMsg, skipIfNotNewerVersion) for a
\* pluginPath that holds container (unless the fault says otherwise).
installPluginFile(fs, env, container, skipIfNotNewerVersion, fault) ==
    LET Failed(msg) == Outcome("", msg, fs, <<>>, "")
        x == extractLgxPackage(container, env.primary, fault)
        names == container.files \cup {ManifestFile}
        \* the manifest written into the extracted variant directory
        detectedType == container.type
        isCoreModule == detectedType = "core"
        pluginsDirectory == TargetDirectory(env, isCoreModule, ParentExists(fs, env, fault))
        c == copyLibraryFromExtracted(fs, container, {x.matchedVariant}, names,
                                      pluginsDirectory, env.primary, fault)
        mainFile == EntryPointFile(c.fs, pluginsDirectory, c.outModuleName,
                                   detectedType, env.primary)
    IN  IF fault.kind = "nofile"
        THEN Failed("Source plugin file does not exist or is not a file")
        ELSE IF fault.kind = "suffix"
        THEN Failed("Only LGX packages are supported")
        ELSE IF skipIfNotNewerVersion /\ AlreadyInstalled(fs, env, container, fault)
        THEN Outcome("skipped", "", fs, <<>>, "")
        ELSE IF fault.kind = "tempdir"
        THEN Failed("Failed to create temporary directory for LGX extraction")
        ELSE IF ~x.ok THEN Failed(x.errorMsg)
        ELSE IF fault.kind = "mkpath"
                /\ ~\E f \in fs : f.dir = pluginsDirectory
        THEN Failed("Failed to create plugins directory")
        ELSE IF ~c.ok
        THEN Outcome("", c.errorMsg, c.fs, <<>>, x.matchedVariant)
        ELSE Outcome(pluginsDirectory, "", c.fs,
                     NotifyInstalled(c.fs, pluginsDirectory, c.outModuleName,
                                     mainFile, isCoreModule),
                     x.matchedVariant)

\* bool downloadFile(url, destinationPath): the files of the temp directory
\* afterwards and the result.  A short write leaves the file it wrote.
downloadFile(temp, packageFile, status) ==
    IF status \in {"error", "mkpath", "open"} THEN [ok |-> FALSE, temp |-> temp]
    ELSE IF status = "write" THEN [ok |-> FALSE, temp |-> temp \cup {packageFile}]
    ELSE [ok |-> TRUE, temp |-> temp \cup {packageFile}]

\* bool installPackage(packageName); packages is what
\* fetchPackageListFromOnline returned, tempDir the TempLocation, status
\* the outcome of the download, container what was downloaded.
installPackage(fs, env, packageName, packages, tempDir, status, container, fault) ==
    LET packageObj == findPackageByName(packages, packageName)
        packageFile == packageObj.package
        Failed == [returned |-> FALSE, temp |-> {},
                   out |-> Outcome("", "", fs, <<>>, "")]
        d == downloadFile({}, packageFile, status)
        out == installPluginFile(fs, env, container, SkipIfNotNewerVersionDefault, fault)
    IN  IF packages = <<>> THEN Failed
        ELSE IF packageObj = EmptyObject THEN Failed
        ELSE IF packageFile = "" THEN Failed
        ELSE IF tempDir = "" THEN Failed
        ELSE IF ~d.ok THEN [Failed EXCEPT !.temp = d.temp]
        ELSE [returned |-> out.path # "", temp |-> d.temp \ {packageFile}, out |-> out]

----------------------------------------------------------------------------
(* installPluginFile and installPackage: calls and their environment *)

\* The builds the calls are made on: one whose tag has an alias, one
\* whose tag has none.
InstallPlatforms == {"linux-x86_64", "darwin-arm64"}

\* A tag no build of InstallPlatforms tries.
ForeignTag == "windows-x86_64"

SetOf(seq) == {seq[i] : i \in DOMAIN seq}

LastOf(seq) == seq[Len(seq)]

ModuleTypes == {"core", "ui"}

\* The files of a variant subtree and the main object of the manifest.
Layouts(primary) ==
    {[files |-> {LibraryFile(primary)}, main |-> NoMain],
     [files |-> {LibraryFile(primary), DataFile}, main |-> NoMain],
     [files |-> {LibraryFile(primary), DataFile},
      main |-> [tag |-> LastOf(platformVariantsToTry(primary)), file |-> DataFile]],
     [files |-> {DataFile}, main |-> NoMain]}

Containers(primary) ==
    {Container(name, version, type, layout.main, tags, layout.files) :
        name \in {"A", ""}, version \in {<<>>, V_1_9_0, V_2_0_0}, type \in ModuleTypes,
        layout \in Layouts(primary),
        tags \in SUBSET (SetOf(platformVariantsToTry(primary)) \cup {ForeignTag})}

\* What can go wrong during a call of installPluginFile for container.
Faults(container) ==
    {Fault(kind, NoName) :
        kind \in {"none", "nofile", "suffix", "load", "tempdir", "extract",
                  "manifest", "mkpath", "cdup"}}
        \cup {Fault(kind, at) :
                kind \in {"remove", "copy"}, at \in container.files \cup {ManifestFile}}

Environments ==
    {Environment(primary, ConfiguredModulesDir, ConfiguredUiDir) : primary \in InstallPlatforms}
        \cup {Environment(primary, ConfiguredModulesDir, "") : primary \in InstallPlatforms}
        \cup {Environment(primary, "", "") : primary \in InstallPlatforms}

\* An installation of module A of an earlier version, with a file of its own.
Preinstalled(dir, version, type, primary) ==
    {Installed(dir, "A", file,
               Origin(Container("A", version, type, NoMain, {primary}, {}), primary)) :
        file \in {LibraryFile(primary), ManifestFile, DataFile}}

\* The plugins directories before the call.
InitialFiles(env) ==
    {{}} \cup {Preinstalled(TargetDirectory(env, type = "core", TRUE), version, type, env.primary) :
                  type \in ModuleTypes, version \in {V_1_9_0, V_2_0_0}}

NoOutcome == Outcome("", "", {}, <<>>, "")

\* The state of a call: its inputs, and once it is done its outcome.
Call(op, env, fs, container, skip, fault) ==
    [phase |-> "call", op |-> op, env |-> env, fs |-> fs, container |-> container,
     skipIfNotNewerVersion |-> skip, fault |-> fault,
     packageName |-> "", packages |-> <<>>, tempDir |-> "", status |-> "",
     returned |-> FALSE, temp |-> {}, out |-> NoOutcome]

\* The container the catalog entry "a.lgx" stands for when the call does
\* not get as far as opening it.
SomeContainer(primary) ==
    Container("A", V_2_0_0, "core", NoMain, {primary}, {LibraryFile(primary)})

\* The calls of installPackage that end before installPluginFile.
EarlyPackageCalls(env, fs) ==
    {[Call("installPackage", env, fs, SomeContainer(env.primary),
           SkipIfNotNewerVersionDefault, NoFault)
         EXCEPT !.packageName = i.packageName, !.packages = i.packages,
                !.tempDir = i.tempDir, !.status = i.status] :
        i \in {[packageName |-> "A", packages |-> <<>>, tempDir |-> "/tmp", status |-> "ok"],
               [packageName |-> "D", packages |-> CatalogV1, tempDir |-> "/tmp", status |-> "ok"],
               [packageName |-> "C", packages |-> CatalogV1, tempDir |-> "/tmp", status |-> "ok"],
               [packageName |-> "A", packages |-> CatalogV1, tempDir |-> "", status |-> "ok"]}
              \cup {[packageName |-> "A", packages |-> CatalogV1, tempDir |-> "/tmp",
                     status |-> st] : st \in FileStatuses \ {"ok"}}}

\* The calls of installPackage that download the container of package A.
PackageCalls(env, fs) ==
    {[Call("installPackage", env, fs, container, SkipIfNotNewerVersionDefault, fault)
         EXCEPT !.packageName = "A", !.packages = CatalogV1,
                !.tempDir = "/tmp", !.status = "ok"] :
        container \in Containers(env.primary),
        fault \in {f \in UNION {Faults(c) : c \in Containers(env.primary)} :
                      f.kind \notin {"nofile", "suffix"}}}

InitInstall ==
    /\ EngineStart(0, 0)
    /\ \E env \in Environments :
         \E fs \in InitialFiles(env) :
            \/ \E container \in Containers(env.primary), skip \in BOOLEAN :
                 \E fault \in Faults(container) :
                    rd = Call("installPluginFile", env, fs, container, skip, fault)
            \/ \E call \in EarlyPackageCalls(env, fs) \cup PackageCalls(env, fs) :
                    rd = call

\* One call installPluginFile(pluginPath, errorMsg, skipIfNotNewerVersion).
InstallPluginFileCall ==
    /\ rd.phase = "call"
    /\ rd.op = "installPluginFile"
    /\ LET out == installPluginFile(rd.fs, rd.env, rd.container,
                                    rd.skipIfNotNewerVersion, rd.fault)
       IN  rd' = [rd EXCEPT !.phase = "done", !.out = out,
                            !.returned = (out.path # "")]
    /\ EngineUnchanged

\* One call installPackage(packageName).
InstallPackageCall ==
    /\ rd.phase = "call"
    /\ rd.op = "installPackage"
    /\ LET r == installPackage(rd.fs, rd.env, rd.packageName, rd.packages, rd.tempDir,
                               rd.status, rd.container, rd.fault)
       IN  rd' = [rd EXCEPT !.phase = "done", !.out = r.out,
                            !.returned = r.returned, !.temp = r.temp]
    /\ EngineUnchanged

NextInstall ==
    \/ InstallPluginFileCall
    \/ InstallPackageCall

SpecInstall == InitInstall /\ [][NextInstall]_vars

----------------------------------------------------------------------------
(* Properties of installPluginFile and installPackage *)

PluginFileDone == rd.phase = "done" /\ rd.op = "installPluginFile"

\* pluginPath is a readable .lgx container.
ReadableContainer == rd.fault.kind \notin {"nofile", "suffix", "load"}

\* The base directories that are configured.
ConfiguredDirs == {rd.env.m_pluginsDirectory, rd.env.m_uiPluginsDirectory} \ {""}

\* A configured base directory holds <base>/<name>/manifest.json with a
\* non-empty version that is >= the version the container declares.
NotOlderInstalled ==
    /\ rd.container.name # ""
    /\ rd.container.version # <<>>
    /\ \E base \in ConfiguredDirs :
          /\ InstalledVersion(rd.fs, base, rd.container.name) # <<>>
          /\ versionGreaterOrEqual(InstalledVersion(rd.fs, base, rd.container.name),
                                   rd.container.version)

\* C15: with skipIfNotNewerVersion, when a configured base directory holds
\* a manifest of the module with a non-empty version >= the version of the
\* incoming container, installPluginFile returns "skipped" with no error,
\* leaves every file of the plugins directories as it was and emits no
\* pluginFileInstalled.
C15_SkipsNotNewer ==
    (PluginFileDone /\ rd.skipIfNotNewerVersion /\ ReadableContainer /\ NotOlderInstalled) =>
        /\ rd.out.path = "skipped"
        /\ rd.out.errorMsg = ""
        /\ rd.out.fs = rd.fs
        /\ rd.out.emitted = <<>>

\* Version 2.0.0 is installed in the UI directory and a container of the
\* same version, which would go to the modules directory, was skipped.
C15_Witness ==
    /\ PluginFileDone
    /\ rd.skipIfNotNewerVersion
    /\ rd.container.version = V_2_0_0
    /\ rd.container.type = "core"
    /\ InstalledVersion(rd.fs, ConfiguredUiDir, "A") = V_2_0_0
    /\ rd.out.path = "skipped"

\* The container has none of the tags of platformVariantsToTry().
NoVariantForPlatform ==
    \A i \in DOMAIN platformVariantsToTry(rd.env.primary) :
        platformVariantsToTry(rd.env.primary)[i] \notin rd.container.tags

\* C16: for a container with none of the tags of platformVariantsToTry(),
\* installPluginFile fails with the unsupported-platform error whatever the
\* skip flag and the installed versions, changes no file of a plugins
\* directory, emits nothing and leaves nothing in the extraction directory.
C16_UnsupportedPlatformFails ==
    (PluginFileDone /\ rd.fault = NoFault /\ NoVariantForPlatform) =>
        /\ rd.out.path = ""
        /\ rd.out.errorMsg = "Package does not contain variant for platform"
        /\ rd.out.fs = rd.fs
        /\ rd.out.emitted = <<>>
        /\ rd.out.scratch = {}

\* The call installed the container: it returned the plugins directory.
InstallSucceeded == rd.phase = "done" /\ rd.out.path \notin {"", "skipped"}

\* The module directory the call wrote to.
ModuleDirFiles(fs) ==
    {f \in fs : f.dir = rd.out.path /\ \E g \in rd.out.fs \ rd.fs : g.module = f.module}

\* C17: after a successful install over an existing installation of the
\* module, <base>/<moduleName>/ holds exactly the files of the installed
\* variant subtree, and each of them is the new one.
C17_ReinstallReplacesAll ==
    (InstallSucceeded /\ ModuleDirFiles(rd.fs) # {}) =>
        /\ {f.file : f \in ModuleDirFiles(rd.out.fs)} = rd.container.files \cup {ManifestFile}
        /\ \A f \in ModuleDirFiles(rd.out.fs) : f.origin = Origin(rd.container, rd.out.variant)

\* C18: when a call of installPackage has ended, whatever its outcome, no
\* download of the package is left in the temp directory.
C18_NoTempFileLeft ==
    (rd.phase = "done" /\ rd.op = "installPackage") => rd.temp = {}

\* C19: pluginFileInstalled is emitted at most once per call, never by a
\* call that fails or returns "skipped", and only for a file that exists
\* in the module directory after the copy.
C19_NotifiesExistingFile ==
    rd.phase = "done" =>
        /\ Len(rd.out.emitted) <= 1
        /\ \A i \in DOMAIN rd.out.emitted :
              /\ InstallSucceeded
              /\ rd.out.emitted[i].dir = rd.out.path
              /\ rd.out.emitted[i].isCoreModule = (rd.container.type = "core")
              /\ \E f \in rd.out.fs :
                    /\ f.dir = rd.out.emitted[i].dir
                    /\ f.module = rd.out.emitted[i].module
                    /\ f.file = rd.out.emitted[i].file

\* The manifest names the entry point under the alias tag only; the file
\* was copied and notified, for a module of type ui.
C19_Witness ==
    /\ PluginFileDone
    /\ InstallSucceeded
    /\ rd.env.primary = "linux-x86_64"
    /\ rd.container.main.tag = "linux-amd64"
    /\ rd.out.emitted =
          <<PluginFileInstalled(ConfiguredUiDir, "A", DataFile, FALSE)>>

\* C20: the variant extracted and installed is the earliest tag of
\* platformVariantsToTry() that the container has: the primary tag if the
\* container has it, an alias only if not, never another tag; the files
\* written are those of that variant.
C20_EarliestVariantChosen ==
    LET variants == platformVariantsToTry(rd.env.primary) IN
    rd.phase = "done" =>
        /\ InstallSucceeded => rd.out.variant # ""
        /\ rd.out.variant # "" =>
              \E i \in DOMAIN variants :
                  /\ variants[i] = rd.out.variant
                  /\ rd.out.variant \in rd.container.tags
                  /\ \A j \in 1..(i - 1) : variants[j] \notin rd.container.tags
        /\ (rd.out.variant # "" /\ rd.env.primary \in rd.container.tags) =>
              rd.out.variant = rd.env.primary
        /\ \A f \in rd.out.fs \ rd.fs : f.origin.tag = rd.out.variant

\* A container with the alias tag and a foreign tag but not the primary tag
\* was installed from its alias variant.
C20_Witness ==
    /\ InstallSucceeded
    /\ rd.env.primary = "linux-x86_64"
    /\ rd.container.tags = {"linux-amd64", ForeignTag}
    /\ rd.out.variant = "linux-amd64"
    /\ \E f \in rd.out.fs : f.origin.tag = "linux-amd64"



----------------------------------------------------------------------------
(* currentPlatformVariant and platformVariantsToTry on every build *)

\* The tags a container can carry: the primary tags and the other spelling
\* of each 64-bit architecture.
KnownTags ==
    PlatformVariants \cup
        {"linux-amd64", "linux-aarch64", "darwin-amd64", "darwin-aarch64", "windows-amd64"}

\* The part of a tag before the dash.
OsFamily(tag) ==
    IF tag \in {"darwin-arm64", "darwin-x86_64", "darwin-amd64", "darwin-aarch64"}
    THEN "darwin"
    ELSE IF tag \in {"linux-x86_64", "linux-arm64", "linux-x86", "linux-amd64",
                     "linux-aarch64"}
    THEN "linux"
    ELSE IF tag \in {"windows-x86_64", "windows-x86", "windows-amd64"} THEN "windows"
    ELSE "unknown"

\* The part of a tag after the dash.
ArchOf(tag) ==
    IF tag \in {"darwin-x86_64", "linux-x86_64", "windows-x86_64"} THEN "x86_64"
    ELSE IF tag \in {"darwin-amd64", "linux-amd64", "windows-amd64"} THEN "amd64"
    ELSE IF tag \in {"darwin-arm64", "linux-arm64"} THEN "arm64"
    ELSE IF tag \in {"darwin-aarch64", "linux-aarch64"} THEN "aarch64"
    ELSE IF tag \in {"linux-x86", "windows-x86"} THEN "x86"
    ELSE ""

\* The other spelling of an architecture, "" if it has one spelling.
AliasArch(arch) ==
    IF arch = "x86_64" THEN "amd64"
    ELSE IF arch = "amd64" THEN "x86_64"
    ELSE IF arch = "arm64" THEN "aarch64"
    ELSE IF arch = "aarch64" THEN "arm64"
    ELSE ""

\* The alias tag of a primary tag, "" if its architecture has one spelling.
AliasTag(primary) ==
    IF AliasArch(ArchOf(primary)) = "" THEN ""
    ELSE CHOOSE t \in KnownTags :
            OsFamily(t) = OsFamily(primary) /\ ArchOf(t) = AliasArch(ArchOf(primary))

\* One build (its primary tag) and the variant tags of one container.
InitPlatform ==
    /\ EngineStart(0, 0)
    /\ \E primary \in PlatformVariants, tags \in SUBSET KnownTags :
          rd = [phase |-> "call", primary |-> primary, tags |-> tags,
                variants |-> <<>>, matched |-> ""]

\* platformVariantsToTry() and the search for the first variant the
\* container has (extractLgxPackage).
PlatformCall ==
    /\ rd.phase = "call"
    /\ rd' = [rd EXCEPT !.phase = "done",
                        !.variants = platformVariantsToTry(rd.primary),
                        !.matched = FirstVariant(platformVariantsToTry(rd.primary), rd.tags)]
    /\ EngineUnchanged

NextPlatform == PlatformCall

SpecPlatform == InitPlatform /\ [][NextPlatform]_vars

\* C21: on every platform the list of variants to try is the primary tag
\* followed by the alias tag of the same operating system when the
\* architecture of the primary has two spellings, and no tag in it belongs
\* to another operating system.
C21_AliasOnEveryPlatform ==
    rd.phase = "done" =>
        /\ rd.variants # <<>>
        /\ Head(rd.variants) = rd.primary
        /\ AliasTag(rd.primary) # "" => Tail(rd.variants) = <<AliasTag(rd.primary)>>
        /\ \A i \in DOMAIN rd.variants : OsFamily(rd.variants[i]) = OsFamily(rd.primary)


----------------------------------------------------------------------------
(* The directory a module is installed to *)

\* The directory core modules go to and the directory ui modules are to go
\* to: the configured one, or the "plugins" sibling of the former.
CoreDirectory == ModulesDirectory(rd.env)

UiDirectory ==
    IF rd.env.m_uiPluginsDirectory # "" THEN rd.env.m_uiPluginsDirectory
    ELSE SiblingPluginsDir(CoreDirectory)

\* dir is base or lies below it.
Under(dir, base) ==
    \/ dir = base
    \/ base \in {DefaultModulesDir, ConfiguredModulesDir} /\ dir = NestedPluginsDir(base)

\* The files the call wrote.
WrittenFiles == rd.out.fs \ rd.fs

\* C22: a module of type core is installed under the core modules directory
\* and a module of type ui under the UI plugins directory (configured, or
\* the "plugins" sibling of the core directory); no file of a core module
\* is written under the UI directory and none of a ui module under the core
\* directory.
C22_TypeDeterminesDirectory ==
    (rd.phase = "done" /\ rd.container.type \in {"core", "ui"}) =>
        /\ InstallSucceeded =>
              rd.out.path = (IF rd.container.type = "core" THEN CoreDirectory
                             ELSE UiDirectory)
        /\ \A f \in WrittenFiles :
              IF rd.container.type = "core" THEN ~Under(f.dir, UiDirectory)
              ELSE ~Under(f.dir, CoreDirectory)


----------------------------------------------------------------------------
(* Submitting while a batch is active *)

\* Every request that was appended to the queue has been the active batch
\* once the engine is at rest.
AppendedWereActivated ==
    Idle => \A id \in 1..nextId : hist[id].submit = "appended" => Contains(activated, id)

\* C23 as stated, for every name list: a call of installPackagesAsync made
\* while m_isInstalling is set appends the given list as one entry at the
\* tail of the request queue and changes nothing else, and every request so
\* appended is processed.
C23_EverySubmitAppends ==
    /\ \A id \in 1..nextId : hist[id].submit \in {"no", "appended"}
    /\ AppendedWereActivated

\* C23: a call of installPackagesAsync with a non-empty name list made
\* while m_isInstalling is set appends exactly that list as one new entry
\* at the tail of the request queue and leaves m_asyncState, the requests in
\* flight and the earlier entries unchanged, also when the same list is
\* already waiting; every request so appended becomes the active batch.
C23_BusySubmitAppends ==
    /\ \A id \in 1..nextId : hist[id].submit \in {"no", "appended", "empty"}
    /\ AppendedWereActivated

\* Two requests with the same names were appended while the same batch was
\* active; the first has been processed and the second is the active batch.
C23_Witness ==
    /\ cur.id # 0
    /\ prev.id # 0
    /\ cur.id # prev.id
    /\ cur.names = prev.names
    /\ hist[cur.id].submit = "appended"
    /\ hist[prev.id].submit = "appended"
    /\ hist[cur.id].blocker = hist[prev.id].blocker
    /\ hist[cur.id].blocker \notin {0, prev.id}


----------------------------------------------------------------------------
(* findPackageByName on its own *)

\* The values of the "name" member of the records, and the queries.
FindNameValues == {"A", "a", "B", "", JsonNumber, JsonUndefined}
FindQueries == {"A", "a", "B", "C", ""}

\* The container file names tell the records of a catalog apart.
FindFiles == <<"1.lgx", "2.lgx", "3.lgx", "4.lgx">>

FindCatalogs ==
    UNION {{[i \in 1..n |-> Pkg(names[i], <<>>, FindFiles[i])] : names \in [1..n -> FindNameValues]} :
              n \in 0..MaxCatalogLen}

InitFind ==
    /\ EngineStart(0, 0)
    /\ \E packages \in FindCatalogs, packageName \in FindQueries :
          rd = [phase |-> "call", packages |-> packages, packageName |-> packageName,
                found |-> EmptyObject]

\* One call findPackageByName(packages, packageName).
FindCall ==
    /\ rd.phase = "call"
    /\ rd' = [rd EXCEPT !.phase = "done",
                        !.found = findPackageByName(rd.packages, rd.packageName)]
    /\ EngineUnchanged

NextFind == FindCall

SpecFind == InitFind /\ [][NextFind]_vars

\* The positions of the records whose name is the string packageName.
ExactMatches(packages, packageName) ==
    {i \in DOMAIN packages : packages[i].name = packageName}

\* C24: findPackageByName returns the first record in catalog order whose
\* name is exactly the query, and an empty record exactly when no record
\* has that name.
C24_FirstExactMatch ==
    rd.phase = "done" =>
        LET matches == ExactMatches(rd.packages, rd.packageName) IN
        IF matches = {} THEN rd.found = EmptyObject
        ELSE /\ rd.found # EmptyObject
             /\ \E i \in matches :
                   /\ rd.found = rd.packages[i]
                   /\ \A j \in matches : i <= j


----------------------------------------------------------------------------
(* getPackages: the catalog with the installed flags *)

\* One element of list.json as getPackages reads it, and one element of
\* its result.
ListEntry(name, moduleName, package) ==
    [name |-> name, moduleName |-> moduleName, package |-> package]

ListedPackage(name, moduleName, package, installed) ==
    [name |-> name, moduleName |-> moduleName, package |-> package,
     installed |-> installed]

\* Subdirectories entryList(QDir::Dirs | QDir::NoDotAndDotDot) leaves out:
\* without QDir::Hidden, those whose name starts with a dot.
HiddenDirs == {".A"}

\* dir.entryList(QDir::Dirs | QDir::NoDotAndDotDot) of dirPath; a file
\* of module "" lies in dirPath itself.
SubDirs(fs, dirPath) == {f.module : f \in {g \in fs : g.dir = dirPath}} \ ({""} \cup HiddenDirs)

\* scanInstalledModules taking the names of the subdirectories instead of
\* the names in their manifests.
scanInstalledModules_DirNames(fs, dirPath) == SubDirs(fs, dirPath)

\* The lambda scanInstalledModules: the non-empty "name" strings of the
\* manifest.json files of the subdirectories of dirPath.
scanInstalledModules(fs, dirPath) ==
    {toString(f.origin.name) :
        f \in {g \in fs : /\ g.dir = dirPath
                          /\ g.module \in SubDirs(fs, dirPath)
                          /\ g.file = ManifestFile}} \ {""}

\* The loop of getPackages over onlinePackages.
RECURSIVE listFrom(_, _, _)
listFrom(onlinePackages, installedModuleNames, i) ==
    IF i > Len(onlinePackages) THEN <<>>
    ELSE LET packageObj == onlinePackages[i]
             moduleName == toString(packageObj.moduleName)
             rest == listFrom(onlinePackages, installedModuleNames, i + 1)
         IN  IF toString(packageObj.package) = "" THEN rest
             ELSE <<ListedPackage(toString(packageObj.name), moduleName,
                                  toString(packageObj.package),
                                  moduleName \in installedModuleNames)>> \o rest

\* getPackages() when fetchPackageListFromOnline returns onlinePackages and
\* the disk holds fs.  cdUp() moves to the parent exactly if it exists,
\* which it does when a directory below it holds a file.
getPackages(onlinePackages, fs, env) ==
    LET modulesDirPath == ModulesDirectory(env)
        pluginsDirPath ==
            TargetDirectory(env, FALSE, ParentExists(fs, env, Fault("cdup", NoName)))
    IN  IF onlinePackages = <<>> THEN <<>>
        ELSE listFrom(onlinePackages,
                      scanInstalledModules(fs, modulesDirPath)
                          \cup scanInstalledModules(fs, pluginsDirPath),
                      1)

\* The "moduleName" members and the "package" members of the records.
ListModuleNames == {"A", "B", "", JsonUndefined}
ListPackageFiles == {"a.lgx", ""}

ListCatalogs ==
    UNION {[1..n -> {ListEntry("P", m, f) : m \in ListModuleNames, f \in ListPackageFiles}] :
              n \in 0..MaxListLen}

\* A manifest.json with the given "name" member, as a file of dir/subdir.
ManifestNamed(dir, subdir, name) ==
    Installed(dir, subdir, ManifestFile,
              Origin(Container(name, V_1_9_0, "core", NoMain, {}, {}), ""))

\* What one plugins directory holds: nothing, a library file of its own, or
\* one subdirectory with a library file and possibly a manifest.
DirContents(dir) ==
    {{}, {Installed(dir, "", LibraryFile("linux-x86_64"), Origin(SomeContainer("linux-x86_64"), ""))}}
        \cup {{Installed(dir, subdir, LibraryFile("linux-x86_64"),
                         Origin(SomeContainer("linux-x86_64"), ""))} : subdir \in {"A", ".A"}}
        \cup {{ManifestNamed(dir, subdir, name)} :
                 subdir \in {"A", ".A"}, name \in {"A", "B", "", JsonUndefined}}

ListEnvironments ==
    {Environment("linux-x86_64", ConfiguredModulesDir, ConfiguredUiDir),
     Environment("linux-x86_64", ConfiguredModulesDir, ""),
     Environment("linux-x86_64", "", "")}

InitList ==
    /\ EngineStart(0, 0)
    /\ \E env \in ListEnvironments, onlinePackages \in ListCatalogs :
         \E core \in DirContents(ModulesDirectory(env)),
            ui \in DirContents(TargetDirectory(env, FALSE, TRUE)) :
            rd = [phase |-> "call", env |-> env, fs |-> core \cup ui,
                  onlinePackages |-> onlinePackages, result |-> <<>>]

\* One call getPackages().
GetPackagesCall ==
    /\ rd.phase = "call"
    /\ rd' = [rd EXCEPT !.phase = "done",
                        !.result = getPackages(rd.onlinePackages, rd.fs, rd.env)]
    /\ EngineUnchanged

NextList == GetPackagesCall

SpecList == InitList /\ [][NextList]_vars

\* The manifest.json files of the immediate subdirectories of the modules
\* directory and of the UI plugins directory, hidden ones or not.
SubdirManifests(includeHidden) ==
    {f \in rd.fs : /\ f.dir \in {ModulesDirectory(rd.env), TargetDirectory(rd.env, FALSE, TRUE)}
                   /\ f.module # ""
                   /\ includeHidden \/ f.module \notin HiddenDirs
                   /\ f.file = ManifestFile}

----------------------------------------------------------------------------
(* The install command of the command line tool *)

\* The package names given on the command line ("D" is in no catalog).
CliNames == {"A", "C", "D"}

CliEnvironment == Environment("linux-x86_64", ConfiguredModulesDir, ConfiguredUiDir)

\* The container the download of a package yields.
CliContainer(packageName) ==
    Container(packageName, V_2_0_0, "core", NoMain, {"linux-x86_64"},
              {FileName(packageName, libExtension("linux-x86_64"))})

\* cmdInstall has not run, is in its loop over packagesToInstall at index,
\* or has returned exit.
InitCli ==
    /\ EngineStart(0, 0)
    /\ \E args \in SeqsUpTo(CliNames, MaxArgs) :
          rd = [phase |-> "start", args |-> args, packagesToInstall |-> <<>>,
                index |-> 1, installed |-> 0, failed |-> 0, succeeded |-> {},
                fs |-> {}, exit |-> -1]

\* cmdInstall up to its loop; allPackages is what the catalog fetch of
\* resolveDependencies returns.
CmdInstallBegin ==
    /\ rd.phase = "start"
    /\ \E allPackages \in BlockingResults :
          rd' = IF rd.args = <<>>
                THEN [rd EXCEPT !.phase = "done", !.exit = 1]
                ELSE [rd EXCEPT !.phase = "loop",
                                !.packagesToInstall = resolveDependencies(rd.args, allPackages)]
    /\ EngineUnchanged

\* if (pm.installPackage(packageName)) installed++; else failed++;
CmdInstallCount(r, returned) ==
    IF returned
    THEN [r EXCEPT !.installed = @ + 1,
                   !.succeeded = @ \cup {r.packagesToInstall[r.index]}]
    ELSE [r EXCEPT !.failed = @ + 1]

\* One round of the loop: installPackage(packageName) with what its own
\* catalog fetch, its download and the installation meet.
CmdInstallPackage ==
    /\ rd.phase = "loop"
    /\ rd.index <= Len(rd.packagesToInstall)
    /\ \E packages \in BlockingResults, status \in {"ok", "error"},
          fault \in {NoFault, Fault("extract", NoName)} :
          LET packageName == rd.packagesToInstall[rd.index]
              r == installPackage(rd.fs, CliEnvironment, packageName, packages, "/tmp",
                                  status, CliContainer(packageName), fault)
          IN  rd' = [CmdInstallCount(rd, r.returned) EXCEPT !.index = @ + 1, !.fs = r.out.fs]
    /\ EngineUnchanged

\* The end of cmdInstall: the exit code.
CmdInstallEnd ==
    /\ rd.phase = "loop"
    /\ rd.index > Len(rd.packagesToInstall)
    /\ rd' = [rd EXCEPT !.phase = "done", !.exit = IF rd.failed = 0 THEN 0 ELSE 1]
    /\ EngineUnchanged

NextCli ==
    \/ CmdInstallBegin
    \/ CmdInstallPackage
    \/ CmdInstallEnd

SpecCli == InitCli /\ [][NextCli]_vars

\* C26: the install command returns 0 only if every requested package name
\* was installed successfully, and 1 if some requested package was not
\* installed, a name that is not in the catalog included.
C26_ExitCodeReflectsRequest ==
    rd.phase = "done" =>
        /\ rd.exit \in {0, 1}
        /\ rd.exit = 0 => \A i \in DOMAIN rd.args : rd.args[i] \in rd.succeeded

----------------------------------------------------------------------------
(* The resolution state of a request that has just become active *)

\* installPackagesAsync has set m_isInstalling for the active request and is
\* inside resolveDependencies (lines 458-461).
Resolving ==
    /\ cur.id # 0
    /\ \E i \in DOMAIN stack : stack[i].pc = "resolve" /\ stack[i].id = cur.id

\* installPackagesAsync has returned for the active request (line 474) and
\* no reply of the batch has been handled yet.
JustActivated ==
    /\ cur.id # 0
    /\ ~Resolving
    /\ Len(cur.attempts) = 1
    /\ cur.emits = <<>>
    /\ Contains(net, "list")

\* The per-package fields of the resolution state are empty.
NoFilesInFlight ==
    /\ m_asyncState.filesToDownload = <<>>
    /\ m_asyncState.downloadedFiles = <<>>
    /\ m_asyncState.currentDownloadIndex = 0

\* C27: when a request becomes active its resolution state holds nothing of
\* the previous batch: while its dependencies are being resolved the batch
\* that ended before has left an empty packageQueue, index 0 and no files,
\* and once installPackagesAsync has returned packageQueue is the
\* dependency-expanded list of the request, currentPackageIndex is 0 and
\* filesToDownload, downloadedFiles, currentDownloadIndex are empty/0,
\* whether the previous batch ended in success or in failure.
C27_FreshResolutionState ==
    /\ (Resolving /\ prev.id # 0) =>
          /\ m_asyncState.packageQueue = <<>>
          /\ m_asyncState.currentPackageIndex = 0
          /\ NoFilesInFlight
    /\ JustActivated =>
          /\ m_asyncState.packageQueue = cur.resolved
          /\ m_asyncState.currentPackageIndex = 0
          /\ NoFilesInFlight

\* A request was activated after a batch that was aborted by a failed
\* download, and its dependency-expanded list is not empty.
C27_Witness ==
    /\ JustActivated
    /\ cur.resolved # <<>>
    /\ prev.ended = "aborted"
    /\ \E i \in DOMAIN prev.emits : prev.emits[i].error = "Failed to download "

\* The same after a batch that installed a package and ended in success.
C27_WitnessAfterSuccess ==
    /\ JustActivated
    /\ cur.resolved # <<>>
    /\ prev.ended = "done"
    /\ prev.installs # <<>>

----------------------------------------------------------------------------
(* The steps of one package of a batch *)

\* A slot of a signal emitted for the active batch is running.
Emitting(pc) == \E i \in DOMAIN stack : stack[i].pc = pc /\ stack[i].id = cur.id

\* The steps the active batch can be at: waiting for the catalog reply,
\* waiting for the container, inside installPluginFile, delivering the
\* completion event.
Steps ==
    {step \in {"fetch", "download", "install", "event"} :
        \/ step = "fetch" /\ Contains(net, "list")
        \/ step = "download" /\ Contains(net, "file")
        \/ step = "install" /\ Emitting("emitPlugin")
        \/ step = "event" /\ Emitting("emitPkg")}

\* The number of packages of the active batch that are done with.
Advanced == m_asyncState.currentPackageIndex

\* The package the active batch is at is packageQueue[currentPackageIndex]
\* and one catalog fetch was issued for it and for each package before it.
OneFetchPerPackage ==
    /\ m_asyncState.packageQueue = cur.resolved
    /\ Advanced \in 0..(Len(cur.resolved) - 1)
    /\ cur.attempts = SubSeq(cur.resolved, 1, Advanced + 1)
    /\ m_asyncState.packageName = cur.resolved[Advanced + 1]

\* The record found in the catalog reply names the package and its
\* container is the one file to download.
LookedUp ==
    /\ toString(m_asyncState.packageObj.name) = m_asyncState.packageName
    /\ m_asyncState.filesToDownload = <<m_asyncState.packageObj.package>>

\* C28: for each package of a batch the steps occur only in the order
\* catalog fetch, record lookup, container download, install, completion
\* event, advance: the batch is at exactly one step, one catalog fetch was
\* issued per package, a download is pending only after the lookup in the
\* catalog reply, an install runs only with the downloaded file written,
\* the completion event follows the install, and a package is started only
\* after the install and the completion event of every package before it.
C28_StepOrder ==
    (cur.id # 0 /\ ~Resolving) =>
        /\ Cardinality(Steps) = 1
        /\ OneFetchPerPackage
        /\ "fetch" \in Steps =>
              /\ Len(net) = 1
              /\ m_asyncState.filesToDownload = <<>>
              /\ m_asyncState.downloadedFiles = <<>>
              /\ Len(cur.installs) = Advanced
              /\ Len(cur.emits) = Advanced
        /\ "download" \in Steps =>
              /\ Len(net) = 1
              /\ LookedUp
              /\ m_asyncState.currentDownloadIndex = 0
              /\ m_asyncState.downloadedFiles = <<>>
              /\ Len(cur.installs) = Advanced
              /\ Len(cur.emits) = Advanced
        /\ "install" \in Steps =>
              /\ net = <<>>
              /\ LookedUp
              /\ m_asyncState.downloadedFiles = m_asyncState.filesToDownload
              /\ Len(cur.installs) = Advanced + 1
              /\ Len(cur.emits) = Advanced
        /\ "event" \in Steps =>
              /\ net = <<>>
              /\ LookedUp
              /\ m_asyncState.downloadedFiles = m_asyncState.filesToDownload
              /\ Len(cur.installs) = Advanced + 1
              /\ Len(cur.emits) = Advanced + 1
              /\ cur.emits[Advanced + 1].packageName = m_asyncState.packageName

\* The completion event of the second package of a batch is being delivered.
C28_Witness ==
    /\ cur.id # 0
    /\ ~Resolving
    /\ "event" \in Steps
    /\ Advanced = 1

----------------------------------------------------------------------------
(* Versions of installed modules under the skip policy *)

\* The module directories <dir>/<module> that had a manifest with a version
\* before the call.
VersionedBefore ==
    {<<f.dir, f.module>> : f \in {g \in rd.fs : g.file = ManifestFile /\ g.origin.version # <<>>}}

\* C29: after a call of installPluginFile with skipIfNotNewerVersion the
\* version in the manifest of an installed module is not lower than before,
\* and the files of a module are left alone when the version the container
\* declares is not newer than the installed one, in the configured and in
\* the default base directories.
C29_VersionNeverDecreases ==
    (PluginFileDone /\ rd.skipIfNotNewerVersion) =>
        \A dm \in VersionedBefore :
            LET before == InstalledVersion(rd.fs, dm[1], dm[2])
                after == InstalledVersion(rd.out.fs, dm[1], dm[2])
            IN  /\ after # <<>> => versionGreaterOrEqual(after, before)
                /\ (/\ rd.container.version # <<>>
                    /\ versionGreaterOrEqual(before, rd.container.version)) =>
                      FilesOf(rd.out.fs, dm[1], dm[2]) = FilesOf(rd.fs, dm[1], dm[2])

----------------------------------------------------------------------------
(* Calls that do not ask for the version test *)

\* The call got as far as installPluginFile: always for a call of
\* installPluginFile itself, for installPackage once the container of the
\* package was downloaded.
PluginFileReached ==
    \/ rd.op = "installPluginFile"
    \/ /\ rd.op = "installPackage"
       /\ findPackageByName(rd.packages, rd.packageName).package # ""
       /\ rd.tempDir # ""
       /\ rd.status = "ok"

\* C30: a call without skipIfNotNewerVersion, such as the one installPackage
\* makes, never returns "skipped", and when nothing fails and the container
\* has a variant for the platform it installs the container over an equal
\* or newer installed version: the call succeeds and the manifest of the
\* module then holds the version of the container.
C30_NoSkipWithoutFlag ==
    (rd.phase = "done" /\ ~rd.skipIfNotNewerVersion) =>
        /\ rd.out.path # "skipped"
        /\ (/\ PluginFileReached
            /\ rd.fault = NoFault
            /\ ~NoVariantForPlatform
            /\ NotOlderInstalled) =>
              /\ InstallSucceeded
              /\ InstalledVersion(rd.out.fs, rd.out.path, rd.container.name)
                    = rd.container.version

\* installPackage has installed version 1.9.0 of a module over version 2.0.0.
C30_Witness ==
    /\ rd.phase = "done"
    /\ rd.op = "installPackage"
    /\ ~rd.skipIfNotNewerVersion
    /\ NotOlderInstalled
    /\ rd.container.version = V_1_9_0
    /\ InstalledVersion(rd.fs, rd.out.path, rd.container.name) = V_2_0_0
    /\ InstalledVersion(rd.out.fs, rd.out.path, rd.container.name) = V_1_9_0

----------------------------------------------------------------------------
(* A copy that fails at one file *)

\* The directory and the module subdirectory the call copies to.
CopyDir == TargetDirectory(rd.env, rd.container.type = "core", TRUE)
CopyModule ==
    IF rd.container.name # "" THEN rd.container.name
    ELSE FirstLibraryBaseName(rd.container.files \cup {ManifestFile}, rd.env.primary)

\* The files of the extracted variant directory.
CopyNames == rd.container.files \cup {ManifestFile}

\* The call got as far as copying the variant subtree and the copy failed
\* at the file rd.fault.at: removing the existing file or copying failed.
CopyFailed ==
    /\ rd.phase = "done"
    /\ PluginFileReached
    /\ ~NoVariantForPlatform
    /\ CopyModule # ""
    /\ rd.out.path # "skipped"
    /\ rd.fault.at \in CopyNames
    /\ \/ rd.fault.kind = "copy"
       \/ rd.fault.kind = "remove" /\ FileExists(rd.fs, CopyDir, CopyModule, rd.fault.at)

\* The file named n of the module directory in fs, {} if there is none.
TargetFile(fs, n) == {f \in FilesOf(fs, CopyDir, CopyModule) : f.file = n}

\* C31: when the copy of the variant subtree fails at a file,
\* installPluginFile returns an error and emits no pluginFileInstalled,
\* every file before the failing one is in the target directory as copied
\* from the container, no file after the failing one was copied, and the
\* failing file itself is not there as a copy.
C31_CopyStopsAtFailure ==
    CopyFailed =>
        /\ rd.out.path = ""
        /\ rd.out.errorMsg # ""
        /\ rd.out.emitted = <<>>
        /\ ~rd.returned
        /\ \A n \in CopyNames :
              IF NameRank(n) < NameRank(rd.fault.at)
              THEN TargetFile(rd.out.fs, n) =
                      {Installed(CopyDir, CopyModule, n, Origin(rd.container, rd.out.variant))}
              ELSE IF NameRank(n) > NameRank(rd.fault.at)
              THEN TargetFile(rd.out.fs, n) = TargetFile(rd.fs, n)
              ELSE TargetFile(rd.out.fs, n) \subseteq TargetFile(rd.fs, n)

\* The copy failed at manifest.json: the library was copied over an
\* installed one of another version, readme.txt of the container was not.
C31_Witness ==
    /\ CopyFailed
    /\ rd.fault.at = ManifestFile
    /\ rd.container.files = {LibraryFile(rd.env.primary), DataFile}
    /\ rd.container.version = V_2_0_0
    /\ InstalledVersion(rd.fs, CopyDir, CopyModule) = V_1_9_0
    /\ TargetFile(rd.out.fs, LibraryFile(rd.env.primary)) # TargetFile(rd.fs, LibraryFile(rd.env.primary))
    /\ TargetFile(rd.out.fs, DataFile) = TargetFile(rd.fs, DataFile)

----------------------------------------------------------------------------
(* The synchronous installPackages *)

MaxPackageNames == 2

\* installPackages(packageNames) has not run, is in its loop over
\* packagesToInstall at index, or has returned.  attempts and results are
\* the calls of installPackage made and what they returned.
InitInstallPackages ==
    /\ EngineStart(0, 0)
    /\ \E packageNames \in SeqsUpTo(CliNames, MaxPackageNames) :
          rd = [phase |-> "start", packageNames |-> packageNames,
                packagesToInstall |-> <<>>, index |-> 1, allSuccess |-> TRUE,
                attempts |-> <<>>, results |-> <<>>, fs |-> {}, returned |-> FALSE]

\* installPackages up to its loop; allPackages is what the catalog fetch of
\* resolveDependencies returns.
InstallPackagesBegin ==
    /\ rd.phase = "start"
    /\ \E allPackages \in BlockingResults :
          rd' = IF rd.packageNames = <<>>
                THEN [rd EXCEPT !.phase = "done", !.returned = FALSE]
                ELSE [rd EXCEPT !.phase = "loop",
                                !.packagesToInstall =
                                    resolveDependencies(rd.packageNames, allPackages)]
    /\ EngineUnchanged

\* The loop leaving at the first installPackage that fails.
installPackagesBody_StopAtFailure(r, returned) ==
    [r EXCEPT !.allSuccess = @ /\ returned,
              !.attempts = Append(@, r.packagesToInstall[r.index]),
              !.results = Append(@, returned),
              !.index = IF returned THEN @ + 1 ELSE Len(r.packagesToInstall) + 1]

\* if (!installPackage(packageName)) allSuccess = false;
installPackagesBody(r, returned) ==
    [r EXCEPT !.allSuccess = @ /\ returned,
              !.attempts = Append(@, r.packagesToInstall[r.index]),
              !.results = Append(@, returned),
              !.index = @ + 1]

\* One round of the loop: installPackage(packageName) with what its own
\* catalog fetch, its download and the installation meet.
InstallPackagesStep ==
    /\ rd.phase = "loop"
    /\ rd.index <= Len(rd.packagesToInstall)
    /\ \E packages \in BlockingResults, status \in {"ok", "error"},
          fault \in {NoFault, Fault("extract", NoName)} :
          LET packageName == rd.packagesToInstall[rd.index]
              r == installPackage(rd.fs, CliEnvironment, packageName, packages, "/tmp",
                                  status, CliContainer(packageName), fault)
          IN  rd' = [installPackagesBody(rd, r.returned) EXCEPT !.fs = r.out.fs]
    /\ EngineUnchanged

\* return allSuccess;
InstallPackagesEnd ==
    /\ rd.phase = "loop"
    /\ rd.index > Len(rd.packagesToInstall)
    /\ rd' = [rd EXCEPT !.phase = "done", !.returned = rd.allSuccess]
    /\ EngineUnchanged

NextInstallPackages ==
    \/ InstallPackagesBegin
    \/ InstallPackagesStep
    \/ InstallPackagesEnd

SpecInstallPackages == InitInstallPackages /\ [][NextInstallPackages]_vars

\* installPackage was called for every name of the resolved list, in order,
\* and installPackages returned true exactly when each call returned true.
AttemptedAll ==
    /\ rd.attempts = rd.packagesToInstall
    /\ rd.returned = (\A i \in DOMAIN rd.results : rd.results[i])

\* C32 as stated: installPackages attempts installPackage for every name of
\* the resolved list, in order, also after a failure, and returns true
\* exactly when every attempt succeeded.
C32_TrueIffAllSucceeded ==
    rd.phase = "done" => AttemptedAll

\* C32 for a non-empty list of names: every name of the resolved list is
\* attempted, in order, also after a failure, and the result is true exactly
\* when every attempt succeeded; for an empty list of names nothing is
\* attempted and the result is false.
C32_NonEmptyTrueIffAllSucceeded ==
    rd.phase = "done" =>
        IF rd.packageNames # <<>> THEN AttemptedAll
        ELSE rd.attempts = <<>> /\ ~rd.returned

\* The first package of the resolved list failed, the second was attempted
\* and installed, and installPackages returned false.
C32_Witness ==
    /\ rd.phase = "done"
    /\ rd.results = <<FALSE, TRUE>>
    /\ ~rd.returned

----------------------------------------------------------------------------
(* The entry-point file of an installed module *)

EntryPlatforms == {"linux-x86_64", "darwin-arm64", "windows-x86_64"}
EntryModuleNames == {"A", "org.A"}
EntryTypes == {"core", "ui", "ui_qml"}

\* The main objects of an installed manifest: none, an entry for the
\* primary tag, an entry for a tag the platform does not try.
EntryMains(primary) ==
    {NoMain,
     [tag |-> primary, file |-> FileName("entry", "")],
     [tag |-> "other-tag", file |-> FileName("entry", "")]}

\* The files that may lie in the module directory besides the manifest.
EntryCandidates(module, primary) ==
    {FileName(module, ""), FileName(module, libExtension(primary)),
     FileName("entry", libExtension(primary))}

\* The module directory after copyLibraryFromExtracted: the manifest with
\* its main object and the files of present.
EntryFiles(module, type, main, primary, present) ==
    {Installed(ConfiguredModulesDir, module, file,
               Origin(Container(module, V_2_0_0, type, main, {primary}, present), primary)) :
        file \in present \cup {ManifestFile}}

InitEntryPoint ==
    /\ EngineStart(0, 0)
    /\ \E primary \in EntryPlatforms, module \in EntryModuleNames, type \in EntryTypes :
         \E main \in EntryMains(primary),
            present \in SUBSET EntryCandidates(module, primary) :
            rd = [phase |-> "call", primary |-> primary, module |-> module,
                  type |-> type, main |-> main,
                  fs |-> EntryFiles(module, type, main, primary, present),
                  mainFile |-> NoName, emitted |-> <<>>]

\* The last block of installPluginFile: the entry-point file is determined
\* and pluginFileInstalled is emitted if it exists.
EntryPointCall ==
    /\ rd.phase = "call"
    /\ LET mainFile == EntryPointFile(rd.fs, ConfiguredModulesDir, rd.module,
                                      rd.type, rd.primary)
       IN  rd' = [rd EXCEPT !.phase = "done", !.mainFile = mainFile,
                            !.emitted = NotifyInstalled(rd.fs, ConfiguredModulesDir,
                                            rd.module, mainFile, rd.type = "core")]
    /\ EngineUnchanged

NextEntryPoint == EntryPointCall

SpecEntryPoint == InitEntryPoint /\ [][NextEntryPoint]_vars

\* C33: when the installed manifest has no main entry for any tag of
\* platformVariantsToTry(), the entry-point file checked is
\* <base>/<moduleName>/<moduleName><library suffix>, and it is the file
\* notified if it exists, for every module name.
C33_FallbackIsModuleLibrary ==
    (rd.phase = "done"
        /\ FirstMain(platformVariantsToTry(rd.primary), rd.main) = NoName) =>
        LET library == FileName(rd.module, libExtension(rd.primary))
        IN  /\ rd.mainFile = library
            /\ rd.emitted =
                  IF FileExists(rd.fs, ConfiguredModulesDir, rd.module, library)
                  THEN <<PluginFileInstalled(ConfiguredModulesDir, rd.module, library,
                                             rd.type = "core")>>
                  ELSE <<>>

----------------------------------------------------------------------------
(* PackageManagerPlugin: the plugins directory given with a request *)

MaxPluginRequests == 2

\* The requests carry one package, which has a dependency in CatalogV1.
PluginLists == { <<"A">> }
PluginDirs == {"", ConfiguredModulesDir}
NotWritten == "<not written>"

\* No install step has run yet.
NoInstallStep == [id |-> 0, isCoreModule |-> FALSE, target |-> "",
                  written |-> NotWritten, submitted |-> NotWritten]

\* m_pluginsDirectory and m_uiPluginsDirectory of the library object; given
\* is the directory passed with each request, written the directory passed
\* by the latest call, step the latest install step of the engine.
InitPlugin ==
    /\ InitEngine
    /\ \E ui \in {"", ConfiguredUiDir} :
          rd = [m_pluginsDirectory |-> "", m_uiPluginsDirectory |-> ui,
                given |-> [id \in 1..MaxPluginRequests |-> NotWritten],
                written |-> NotWritten, step |-> NoInstallStep]

\* setPluginsDirectory keeping the directory of the first call.
setPluginsDirectory_KeepFirst(r, pluginsDirectory) ==
    IF r.written = NotWritten
    THEN [r EXCEPT !.m_pluginsDirectory = pluginsDirectory]
    ELSE r

\* m_pluginsDirectory = pluginsDirectory;
setPluginsDirectory(r, pluginsDirectory) ==
    [r EXCEPT !.m_pluginsDirectory = pluginsDirectory]

\* PackageManagerPlugin::installPackagesAsync(packageNames, pluginsDirectory),
\* called from an event or from a slot.
PluginInstallPackagesAsync ==
    /\ nextId < MaxPluginRequests
    /\ \E names \in PluginLists, pluginsDirectory \in PluginDirs :
          LET id == nextId + 1
              s0 == [State EXCEPT !.hist[id].blocker = cur.id]
          IN  /\ Becomes(ObserveSubmit(s0, installPackagesAsync(s0, id, names), id, names))
              /\ nextId' = id
              /\ rd' = [setPluginsDirectory(rd, pluginsDirectory)
                           EXCEPT !.given[id] = pluginsDirectory,
                                  !.written = pluginsDirectory]

\* QNetworkReply::finished of a container download; when the file was
\* written installPluginFile runs for a module of type core or ui and
\* determines its target directory from the members.
PluginFileDownloaded ==
    /\ InEventLoop
    /\ m_asyncState.currentDownloadIndex >= 0
    /\ m_asyncState.currentDownloadIndex < Len(m_asyncState.filesToDownload)
    /\ \E i \in DOMAIN net :
         /\ net[i] = "file"
         /\ \E status \in FileStatuses :
              \E install \in InstallAfter(status), isCoreModule \in BOOLEAN :
              /\ Becomes(onFileDownloaded([State EXCEPT !.net = RemoveAt(@, i)],
                                          status, install))
              /\ rd' = IF status = "ok" /\ install # "failed"
                       THEN [rd EXCEPT !.step =
                               [id |-> cur.id, isCoreModule |-> isCoreModule,
                                target |-> TargetDirectory(
                                    Environment("linux-x86_64", rd.m_pluginsDirectory,
                                                rd.m_uiPluginsDirectory),
                                    isCoreModule, TRUE),
                                written |-> rd.written,
                                submitted |-> rd.given[cur.id]]]
                       ELSE rd
    /\ UNCHANGED nextId

NextPlugin ==
    \/ PluginInstallPackagesAsync
    \/ BlockingFetchReturns
    \/ PackageListFetched
    \/ PluginFileDownloaded
    \/ SlotReturnPlugin
    \/ SlotReturnPkg
    \/ SlotReturnFinish

SpecPlugin == InitPlugin /\ [][NextPlugin]_vars

\* C34: the base directory of an install step is determined from the
\* plugins directory passed by the latest call of
\* PackageManagerPlugin::installPackagesAsync made before the step, also
\* when that call was made while the batch was active and differs from the
\* directory the batch was submitted with: a core module goes to that
\* directory (the default one if it is empty), a ui module to the ui
\* directory or else to the plugins directory next to it.
C34_LastWrittenDirectoryUsed ==
    rd.step # NoInstallStep =>
        rd.step.target =
            TargetDirectory(Environment("linux-x86_64", rd.step.written,
                                        rd.m_uiPluginsDirectory),
                            rd.step.isCoreModule, TRUE)

\* A core package of a batch submitted with the default directory was
\* installed into the directory passed with a later request, which is
\* still waiting in the queue.
C34_Witness ==
    /\ rd.step.id = 1
    /\ rd.step.isCoreModule
    /\ rd.step.submitted = ""
    /\ rd.step.written = ConfiguredModulesDir
    /\ rd.step.target = ConfiguredModulesDir
    /\ cur.id = 1
    /\ Len(m_requestQueue) = 1

----------------------------------------------------------------------------
(* No request waits while the engine is idle *)

\* C35: whenever m_isInstalling is false and control is in the event loop
\* (no slot and no handler of the engine is running), the request queue is
\* empty.
C35_IdleQueueEmpty ==
    (~m_isInstalling /\ InEventLoop) => m_requestQueue = <<>>

\* The engine is idle in the event loop after a batch was aborted and a
\* request that had been queued behind it was processed and ended too.
C35_Witness ==
    /\ ~m_isInstalling
    /\ stack = <<>>
    /\ m_requestQueue = <<>>
    /\ Len(activated) >= 2
    /\ \E id \in DOMAIN hist : hist[id].queued /\ hist[id].ended = "aborted"
    /\ \E id \in DOMAIN hist : ~hist[id].queued /\ hist[id].ended = "aborted"

----------------------------------------------------------------------------
(* The set of names the resolver returns *)

\* The requested names and what is reached from them through the
\* dependency lists of the records of the catalog, as far as they are in
\* the catalog.
Reachable(catalog, packageNames) ==
    {name \in Closure(catalog, SetOf(packageNames)) : Exists(catalog, name)}

\* C36: for a non-empty catalog the names returned by resolveDependencies
\* are exactly the requested names and their transitive dependencies that
\* exist in the catalog, the dependencies of an absent name not being
\* followed, each exactly once, also when the dependencies form cycles.
C36_ExactlyTheClosure ==
    (rd.phase = "done" /\ rd.allPackages # <<>>) =>
        /\ SetOf(rd.result) = Reachable(rd.allPackages, rd.packageNames)
        /\ Cardinality(SetOf(rd.result)) = Len(rd.result)

\* Two requested names, the second absent from the catalog; the first is
\* on a dependency cycle with a third package, which is returned too.
C36_Witness ==
    /\ rd.phase = "done"
    /\ rd.packageNames = <<"A", "C">>
    /\ ~Exists(rd.allPackages, "C")
    /\ "A" \in DirectDeps(rd.allPackages, "B")
    /\ "B" \in DirectDeps(rd.allPackages, "A")
    /\ "C" \in DirectDeps(rd.allPackages, "A")
    /\ SetOf(rd.result) = {"A", "B"}

----------------------------------------------------------------------------
(* Resolution without a catalog *)

\* C37: when fetchPackageListFromOnline returns an empty array (the fetch
\* failed or the catalog is empty), resolveDependencies returns the
\* requested names unchanged: same order, repeated names kept, nothing added.
C37_FallbackReturnsRequest ==
    (rd.phase = "done" /\ rd.allPackages = <<>>) => rd.result = rd.packageNames

\* A name requested twice is returned twice.
C37_Witness ==
    /\ rd.phase = "done"
    /\ rd.allPackages = <<>>
    /\ rd.packageNames = <<"A", "A">>
    /\ rd.result = <<"A", "A">>

----------------------------------------------------------------------------
(* A request with an empty list of names *)

\* The step is a call of installPackagesAsync with an empty list: the call
\* numbered nextId + 1 is made and its notification is being delivered.
EmptySubmitStep ==
    /\ nextId' = nextId + 1
    /\ stack' # <<>>
    /\ Top(stack').pc = "emitEmpty"
    /\ Top(stack').id = nextId'

\* C38: installPackagesAsync with an empty list emits one
\* installationFinished("", false, "No packages to install") and changes
\* nothing else: m_isInstalling, the state of the active batch, the request
\* queue and the outstanding replies are as before, idle or busy.
C38_EmptySubmitOnlyNotifies ==
    [][EmptySubmitStep =>
          /\ stack' = Append(stack, Frame("emitEmpty", nextId', <<>>,
                                 Notification("", FALSE, "No packages to install")))
          /\ m_isInstalling' = m_isInstalling
          /\ m_asyncState' = m_asyncState
          /\ m_requestQueue' = m_requestQueue
          /\ net' = net
          /\ activated' = activated]_vars

\* The notification of an empty request is being delivered while a batch
\* is active and another request waits in the queue.
C38_Witness ==
    /\ stack # <<>>
    /\ Top(stack).pc = "emitEmpty"
    /\ Top(stack).id = nextId
    /\ m_isInstalling
    /\ m_asyncState.packageQueue # <<>>
    /\ m_requestQueue # <<>>

----------------------------------------------------------------------------
(* The synchronous installPackage and installPackages beside the engine *)

MaxSyncRequests == 2
MaxSyncCalls == 1

SyncOps == {"installPackage", "installPackages"}
SyncLists == { <<>>, <<"A">> }

\* What a caller can see of the batch: the flag, the batch's queue and
\* index, and the requests waiting.
Batch(s) == [m_isInstalling |-> s.m_isInstalling,
             packageQueue |-> s.m_asyncState.packageQueue,
             currentPackageIndex |-> s.m_asyncState.currentPackageIndex,
             m_requestQueue |-> s.m_requestQueue]

\* No synchronous call is running.  before and after are the batch at the
\* call and at the return of the latest call, busy whether a batch was
\* active at the call, interleaved whether installPackagesAsync was called
\* between the two.
SyncIdle == [phase |-> "idle", op |-> "", remaining |-> <<>>, allSuccess |-> TRUE,
             returned |-> FALSE, calls |-> 0, busy |-> FALSE, interleaved |-> FALSE,
             before |-> Batch(State), after |-> Batch(State)]

InitSync == InitEngine /\ rd = SyncIdle

\* The pair of the engine's state and the state of the synchronous call.
Both(s, r) == [s |-> s, r |-> r]

BothBecome(b) ==
    \E c \in {b} : Becomes(c.s) /\ rd' = c.r

\* A synchronous entry point that looks at m_isInstalling as
\* installPackagesAsync does and queues the request while a batch is active.
SyncEnter_Guarded(s, r, op, packageNames) ==
    LET called == [r EXCEPT !.op = op, !.calls = @ + 1, !.busy = s.m_isInstalling,
                            !.interleaved = FALSE, !.allSuccess = TRUE,
                            !.before = Batch(s), !.after = Batch(s)]
    IN  IF s.m_isInstalling
        THEN Both([s EXCEPT !.m_requestQueue = Append(@, [id |-> 0, names |-> packageNames])],
                  [called EXCEPT !.returned = FALSE])
        ELSE IF op = "installPackages" /\ packageNames = <<>>
        THEN Both(s, [called EXCEPT !.returned = FALSE])
        ELSE Both([s EXCEPT !.stack = Append(@, Frame("syncLoop", 0, <<>>, NoNotification))],
                  [called EXCEPT !.phase = IF op = "installPackages" THEN "resolve"
                                           ELSE "fetch",
                                 !.remaining = packageNames])

\* installPackages(packageNames) up to the nested loop of the fetch of
\* resolveDependencies, or installPackage(packageNames[1]) up to the nested
\* loop of its own fetch.  No member of the engine is read or written.
SyncEnter(s, r, op, packageNames) ==
    LET called == [r EXCEPT !.op = op, !.calls = @ + 1, !.busy = s.m_isInstalling,
                            !.interleaved = FALSE, !.allSuccess = TRUE,
                            !.before = Batch(s), !.after = Batch(s)]
    IN  IF op = "installPackages" /\ packageNames = <<>>
        THEN Both(s, [called EXCEPT !.returned = FALSE])
        ELSE Both([s EXCEPT !.stack = Append(@, Frame("syncLoop", 0, <<>>, NoNotification))],
                  [called EXCEPT !.phase = IF op = "installPackages" THEN "resolve"
                                           ELSE "fetch",
                                 !.remaining = packageNames])

\* The synchronous call returns `returned` to its caller.
SyncReturn(s, r, returned) ==
    Both([s EXCEPT !.stack = Pop(@)],
         [r EXCEPT !.phase = "idle", !.remaining = <<>>, !.returned = returned,
                   !.after = Batch(s)])

\* installPackage returned `success` for the first of the remaining
\* packages: installPackages goes on with the next one, which begins with a
\* fetch of the catalog, or returns allSuccess; a direct call of
\* installPackage returns success.
SyncContinue(s, r, success) ==
    LET allSuccess == r.allSuccess /\ success
        rest == Tail(r.remaining)
    IN  IF rest = <<>>
        THEN SyncReturn(s, [r EXCEPT !.allSuccess = allSuccess], allSuccess)
        ELSE Both([s EXCEPT !.stack = Append(Pop(@),
                                         Frame("syncLoop", 0, <<>>, NoNotification))],
                  [r EXCEPT !.phase = "fetch", !.remaining = rest,
                            !.allSuccess = allSuccess])

\* A caller invokes installPackage or installPackages, from an event or
\* from a slot.
SyncCall ==
    /\ rd.phase = "idle"
    /\ rd.calls < MaxSyncCalls
    /\ InEventLoop \/ InSlot
    /\ \E op \in SyncOps, packageNames \in SyncLists :
          /\ op = "installPackage" => packageNames # <<>>
          /\ BothBecome(SyncEnter(State, rd, op, packageNames))
    /\ UNCHANGED nextId

\* The nested loop of the fetch of resolveDependencies ends: the names are
\* resolved and the loop of installPackages begins.
SyncResolveReturns ==
    /\ rd.phase = "resolve"
    /\ stack # <<>>
    /\ Top(stack).pc = "syncLoop"
    /\ \E catalog \in BlockingResults :
          LET packagesToInstall == resolveDependencies(rd.remaining, catalog)
          IN  BothBecome(IF packagesToInstall = <<>>
                         THEN SyncReturn(State, rd, TRUE)
                         ELSE Both(State, [rd EXCEPT !.phase = "fetch",
                                                     !.remaining = packagesToInstall]))
    /\ UNCHANGED nextId

\* The nested loop of the fetch of installPackage ends: the package is
\* looked up, and its download begins if it names a file and the temporary
\* directory is known.
SyncFetchReturns ==
    /\ rd.phase = "fetch"
    /\ stack # <<>>
    /\ Top(stack).pc = "syncLoop"
    /\ \E packages \in BlockingResults, tempDir \in TempDirs :
          LET packageObj == findPackageByName(packages, rd.remaining[1])
          IN  BothBecome(IF \/ packages = <<>>
                            \/ packageObj = EmptyObject
                            \/ toString(packageObj.package) = ""
                            \/ tempDir = ""
                         THEN SyncContinue(State, rd, FALSE)
                         ELSE Both(State, [rd EXCEPT !.phase = "download"]))
    /\ UNCHANGED nextId

\* The nested loop of downloadFile ends: the file is written and
\* installPluginFile runs, which emits pluginFileInstalled when it finds
\* the entry-point file.
SyncDownloadReturns ==
    /\ rd.phase = "download"
    /\ stack # <<>>
    /\ Top(stack).pc = "syncLoop"
    /\ \E status \in FileStatuses :
          \E install \in InstallAfter(status) :
          BothBecome(IF install = "notified"
                     THEN Both([State EXCEPT !.stack = Append(Pop(@),
                                    Frame("syncEmit", 0, <<>>, NoNotification))],
                               [rd EXCEPT !.phase = "emit"])
                     ELSE SyncContinue(State, rd, install = "installed"))
    /\ UNCHANGED nextId

\* The slots of pluginFileInstalled have returned; installPluginFile and
\* installPackage return.
SyncSlotReturn ==
    /\ rd.phase = "emit"
    /\ stack # <<>>
    /\ Top(stack).pc = "syncEmit"
    /\ BothBecome(SyncContinue(State, rd, TRUE))
    /\ UNCHANGED nextId

\* installPackagesAsync is called from an event or from a slot.
SyncSubmit ==
    /\ nextId < MaxSyncRequests
    /\ InEventLoop \/ InSlot
    /\ \E names \in PluginLists :
          LET id == nextId + 1
              s0 == [State EXCEPT !.hist[id].blocker = cur.id]
          IN  /\ Becomes(ObserveSubmit(s0, installPackagesAsync(s0, id, names), id, names))
              /\ nextId' = id
              /\ rd' = [rd EXCEPT !.interleaved = @ \/ rd.phase # "idle"]

NextSync ==
    \/ SyncSubmit
    \/ SyncCall
    \/ SyncResolveReturns
    \/ SyncFetchReturns
    \/ SyncDownloadReturns
    \/ SyncSlotReturn
    \/ BlockingFetchReturns
    \/ PackageListFetched
    \/ FileDownloaded
    \/ SlotReturnPlugin
    \/ SlotReturnPkg
    \/ SlotReturnFinish

SpecSync == InitSync /\ [][NextSync]_vars

\* A step of the synchronous call's own code.
SyncStep == rd'.phase # rd.phase \/ rd'.remaining # rd.remaining \/ rd'.calls # rd.calls

\* C39 as stated: a synchronous call made while a batch is active returns
\* with the batch's packageQueue and currentPackageIndex, the flag and the
\* queued requests as they were at the call (no installPackagesAsync having
\* been called in between).
C39_BatchUnchangedAcrossCall ==
    (rd.phase = "idle" /\ rd.calls > 0 /\ rd.busy /\ ~rd.interleaved) =>
        rd.after = rd.before

\* C39: no step of the code of installPackage and installPackages changes
\* m_isInstalling, the state of the active batch, the request queue or the
\* engine's outstanding replies, and a call made while a batch is active
\* starts at once; the batch itself can advance while the call waits in the
\* event loop of its fetch or download.
C39_SyncStepsLeaveEngine ==
    [][SyncStep =>
          /\ UNCHANGED <<m_isInstalling, m_asyncState, m_requestQueue, net, activated>>
          /\ (rd.phase = "idle" /\ rd'.phase = "idle") => rd'.op = "installPackages"
          /\ (rd.phase = "idle" /\ rd'.phase # "idle") =>
                 /\ stack' = Append(stack, Frame("syncLoop", 0, <<>>, NoNotification))
                 /\ rd'.phase = IF rd'.op = "installPackages" THEN "resolve" ELSE "fetch"]_vars

\* installPackages, called while a batch was active with a request queued,
\* has returned true after installing two packages, and the batch advanced
\* in the meantime.
C39_Witness ==
    /\ rd.phase = "idle"
    /\ rd.calls > 0
    /\ rd.op = "installPackages"
    /\ rd.busy
    /\ rd.before.m_requestQueue # <<>>
    /\ ~rd.interleaved
    /\ rd.returned
    /\ rd.after # rd.before

----------------------------------------------------------------------------
(* The indices of the active batch *)

\* A catalog fetch or a download started by the engine is outstanding.
Outstanding == \E i \in DOMAIN net : net[i] \in {"list", "file"}

PackageIndexInRange ==
    /\ 0 <= m_asyncState.currentPackageIndex
    /\ m_asyncState.currentPackageIndex <= Len(m_asyncState.packageQueue)

OutstandingIsCurrent ==
    Outstanding =>
        /\ m_isInstalling
        /\ 0 <= m_asyncState.currentPackageIndex
        /\ m_asyncState.currentPackageIndex < Len(m_asyncState.packageQueue)
        /\ m_asyncState.packageName =
              m_asyncState.packageQueue[m_asyncState.currentPackageIndex + 1]

DownloadIndexInRange ==
    /\ Len(m_asyncState.filesToDownload) <= 1
    /\ Len(m_asyncState.downloadedFiles) = m_asyncState.currentDownloadIndex
    /\ m_asyncState.currentDownloadIndex <= Len(m_asyncState.filesToDownload)

\* C40: in every reachable state 0 <= currentPackageIndex <= |packageQueue|;
\* while a fetch or download of the engine is outstanding m_isInstalling
\* is set, currentPackageIndex < |packageQueue| and packageName is
\* packageQueue[currentPackageIndex]; filesToDownload has at most one entry
\* and |downloadedFiles| = currentDownloadIndex <= |filesToDownload|.
C40_IndexInvariant ==
    /\ PackageIndexInRange
    /\ OutstandingIsCurrent
    /\ DownloadIndexInRange

\* The names of a first batch have been resolved: lines 463-467 have
\* assigned both indices.
IndicesAssigned == prev.id # 0 \/ cur.resolved # <<>>

\* The same invariant from the first assignment of the indices on.
IndexInvariantOnceAssigned == IndicesAssigned => C40_IndexInvariant

====
